---- MODULE Spec2Model ----
(***************************************************************************)
(* kokoro-onnx UI: the script assembler of the podcast tab                 *)
(* (tabs/podcast.py, create_podcast) and of the audiobook tab              *)
(* (tabs/audiobook.py, text_to_audiobook), the single-voice entry point    *)
(* (tabs/single_voice.py, text_to_speech), the enhancement chain           *)
(* (utils/utils.py, process_audio_enhancement, called by                   *)
(* tabs/audio_enhancement.py, enhance_audio), the colour helper            *)
(* (utils/utils.py, validate_color), the script upload and the table       *)
(* handlers of the podcast tab (tabs/podcast.py, handle_file_upload,       *)
(* add_line, clear_table, load_example), the playground pipeline           *)
(* (tabs/playground.py, playground_pipeline) and the terminal chat         *)
(* (play.py, terminal_chatbot_conversation, record_audio).                 *)
(*                                                                         *)
(* Strings are sequences of one-character strings, so that str.strip and   *)
(* str.split are computed and not assumed.  A missing table cell (pandas   *)
(* NaN) and a missing or unreadable file are sentinel sequences that no    *)
(* string of the alphabet equals.                                          *)
(*                                                                         *)
(* Each pipeline has its own specification; the variables of the other     *)
(* pipelines stay at their initial values while one of them runs.          *)
(***************************************************************************)
EXTENDS Integers, Sequences, FiniteSets, TLC

VARIABLES
    mode,         \* which entry point runs: "podcast", "audiobook" or "single"
    sentences,    \* create_podcast: the table, a sequence of rows [voice, text]
    file,         \* text_to_audiobook: the uploaded file's content, NoFile or Unreadable
    voice,        \* text_to_audiobook: the narrator voice passed to the call
    pc,           \* position in the function: "start", "loop", "done"
    i,            \* number of rows / paragraphs the loop has consumed
    paragraphs,   \* text_to_audiobook: the paragraph list
    audio,        \* the list of chunks (audio / audio_chunks), each a sequence of frames
    sample_rate,  \* the local sample_rate (NoRate stands for None)
    result,       \* how the call ended: pending, a returned value, or a raised gr.Error
    printed,      \* lines written to stdout by print()
    calls,        \* the synthesis engine's log: arguments and outcome of every call
    pauses,       \* the silence chunks appended so far: [row, frames]
    text_input,   \* text_to_speech: the text passed to the call
    enh,          \* enhance_audio: the state of each invocation
    out_file,     \* the file at tmp/enhanced_audio.wav
    rgba,         \* validate_color: the argument
    hex_color,    \* validate_color: how the call ended
    upload,       \* handle_file_upload: the uploaded file's content
    upload_result, \* handle_file_upload: how the call ended
    podcast_input, \* the podcast tab's table: a sequence of rows [voice, text]
    table_op,     \* the last handler that ran on the table, with its arguments
    table_result, \* how that handler ended
    models,       \* terminal chat: what get_available_models returned
    model,        \* terminal chat: the model the conversation uses
    conversation_history, \* terminal chat: the history list
    chat_pc,      \* terminal chat: position in terminal_chatbot_conversation
    turns,        \* terminal chat: loop iterations started
    said,         \* terminal chat: messages appended to the history so far
    sent,         \* terminal chat: the model names passed to ollama.generate
    pg_args,      \* playground_pipeline: prompt and model
    pg_pc,        \* playground_pipeline: position in the function
    ai_response,  \* playground_pipeline: what get_ollama_response returned
    pg_result,    \* playground_pipeline: the pair returned
    pg_calls,     \* playground_pipeline: the backend calls made, in order
    stop_recording_event, \* record_audio: the threading.Event
    input_thread, \* record_audio: position of wait_for_enter
    rec_pc,       \* record_audio: position of the recording thread
    frames,       \* record_audio: the chunks appended so far
    captured,     \* record_audio: chunks read from the stream so far
    late_reads,   \* record_audio: reads started after the event was set
    wav_file      \* record_audio: the file written

\* the variables of the pipelines modelled further down
table_vars == <<podcast_input, table_op, table_result>>
chat_vars == <<models, model, conversation_history, chat_pc, turns, said, sent>>
playground_vars == <<pg_args, pg_pc, ai_response, pg_result, pg_calls>>
record_vars == <<stop_recording_event, input_thread, rec_pc, frames, captured,
                 late_reads, wav_file>>
later_pipelines == <<table_vars, chat_vars, playground_vars, record_vars>>

\* the variables no assembler action touches
other_pipelines == <<text_input, enh, out_file, rgba, hex_color, upload, upload_result,
                     later_pipelines>>

vars == <<mode, sentences, file, voice, pc, i, paragraphs, audio, sample_rate,
          result, printed, calls, pauses, text_input, enh, out_file, rgba,
          hex_color, upload, upload_result, later_pipelines>>

\* the variables of the assembler
assembler == <<mode, sentences, file, voice, pc, i, paragraphs, audio,
               sample_rate, result, printed, calls, pauses, text_input>>

---------------------------------------------------------------------------
(* Bounds of the model *)

\* longest podcast table
MaxLines == 2
\* longest audiobook file, in characters
MaxTextLen == 7
\* longest segment the engine returns, in samples
MaxSamples == 2

---------------------------------------------------------------------------
(* Strings *)

NL == "\n"
SP == " "
Whitespace == {SP, NL}
Alphabet == {"A", SP, NL}

NaN == <<"NaN">>
NoFile == <<"NoFile">>
Unreadable == <<"Unreadable">>

\* sample_rate = None
NoRate == 0

isna(x) == x = NaN

RECURSIVE lstrip(_)
lstrip(s) ==
    IF s # <<>> /\ Head(s) \in Whitespace THEN lstrip(Tail(s)) ELSE s

RECURSIVE rstrip(_)
rstrip(s) ==
    IF s # <<>> /\ s[Len(s)] \in Whitespace
    THEN rstrip(SubSeq(s, 1, Len(s) - 1))
    ELSE s

\* str.strip()
strip(s) == rstrip(lstrip(s))

\* index of the first "\n\n" in s at or after position p, 0 when there is none
RECURSIVE find_sep(_, _)
find_sep(s, p) ==
    IF p + 1 > Len(s) THEN 0
    ELSE IF s[p] = NL /\ s[p + 1] = NL THEN p
    ELSE find_sep(s, p + 1)

\* str.split('\n\n'): leftmost, non-overlapping separators, empty pieces kept
RECURSIVE split(_)
split(s) ==
    LET p == find_sep(s, 1)
    IN  IF p = 0 THEN <<s>>
        ELSE <<SubSeq(s, 1, p - 1)>> \o split(SubSeq(s, p + 2, Len(s)))

\* variant: the kept pieces are not stripped
RECURSIVE keep_nonempty(_)
keep_nonempty(ps) ==
    IF ps = <<>> THEN <<>>
    ELSE IF strip(Head(ps)) # <<>>
         THEN <<Head(ps)>> \o keep_nonempty(Tail(ps))
         ELSE keep_nonempty(Tail(ps))

\* [f(x) for x in xs if keep(x)] with f = strip and keep = non-empty strip
RECURSIVE strip_nonempty(_)
strip_nonempty(ps) ==
    IF ps = <<>> THEN <<>>
    ELSE IF strip(Head(ps)) # <<>>
         THEN <<strip(Head(ps))>> \o strip_nonempty(Tail(ps))
         ELSE strip_nonempty(Tail(ps))

\* paragraphs = [p.strip() for p in text.split('\n\n') if p.strip()]
split_paragraphs(text) == strip_nonempty(split(text))

---------------------------------------------------------------------------
(* Inputs *)

available_voices == {<<"a", "f">>, <<"a", "m">>}

\* what a voice cell of the table can hold
VoiceCells == available_voices \cup {<<"z", "z">>, <<>>, NaN}
\* what a text cell of the table can hold
TextCells == {<<"h", "i">>, <<>>, <<SP>>, NaN}

Rows == [voice : VoiceCells, text : TextCells]

RECURSIVE SeqsUpTo(_, _)
SeqsUpTo(S, n) ==
    IF n = 0 THEN {<<>>}
    ELSE LET shorter == SeqsUpTo(S, n - 1)
         IN  shorter \cup {Append(s, x) : s \in {t \in shorter : Len(t) = n - 1}, x \in S}

Scripts == SeqsUpTo(Rows, MaxLines)
Texts == SeqsUpTo(Alphabet, MaxTextLen)

\* sample rates the engine may report
Rates == {2, 3}
\* lengths, in samples, of the segments the engine may return
SegmentLens == 1..MaxSamples

---------------------------------------------------------------------------
(* numpy *)

\* np.zeros(n): n frames of silence, mono
zeros(n) == [k \in 1..n |-> 0]
\* np.zeros((n, 2)): n frames of silence, stereo
zeros2(n) == [k \in 1..n |-> <<0, 0>>]
\* np.column_stack((samples, samples))
column_stack(samples) == [k \in 1..Len(samples) |-> <<samples[k], samples[k]>>]

RECURSIVE flatten(_)
flatten(chunks) ==
    IF chunks = <<>> THEN <<>> ELSE Head(chunks) \o flatten(Tail(chunks))

\* variant: np.concatenate accepts an empty list
concatenate_never_raises(chunks) == FALSE
\* np.concatenate raises ValueError on an empty list
concatenate_raises(chunks) == chunks = <<>>
\* variant: the newest chunk is put first
concatenate_newest_first(chunks) ==
    flatten([k \in 1..Len(chunks) |-> chunks[Len(chunks) + 1 - k]])
concatenate(chunks) == flatten(chunks)

\* pause durations in tenths of a second
\* np.random.uniform(0.5, 1.0): lower end
silence_low == 5
\* np.random.uniform(0.5, 1.0): upper end
silence_high == 10
\* the audiobook's fixed 0.5 s pause
book_pause == 5

\* variant: the frame count is rounded up instead of truncated
pause_frames_rounded_up(d10, sr) == (d10 * sr + 9) \div 10
\* int(d * sr) for a duration of d10 tenths of a second
pause_frames(d10, sr) == (d10 * sr) \div 10

---------------------------------------------------------------------------
(* Errors and results *)

ValueError(what, row) == [exc |-> "ValueError", what |-> what, row |-> row]
EngineError == [exc |-> "EngineError", what |-> "synthesis failed", row |-> 0]
OSError == [exc |-> "OSError", what |-> "cannot read file", row |-> 0]

Pending == [kind |-> "pending"]
ReturnNone == [kind |-> "None"]
ReturnAudio(sr, buf) == [kind |-> "audio", sample_rate |-> sr, audio |-> buf]
\* raise gr.Error(f"Failed to generate audiobook: {str(e)}")
RaiseGrError(e) == [kind |-> "gr.Error", prefix |-> "Failed to generate audiobook: ", cause |-> e]

\* variant: only the first rate is recorded
keep_first_sample_rate(old, sr) == IF old = NoRate THEN sr ELSE old
\* sample_rate = sr
assign_sample_rate(old, sr) == sr

\* the samples the engine returns for its c-th call: n samples, each tagged c
segment(c, n) == [k \in 1..n |-> c]

\* one entry of the engine's log: kokoro.create(text=, voice=, ...) and what it
\* gave back (speed and lang are passed through untouched and are left out)
Call(text, v, ok, samples, sr) ==
    [text |-> text, voice |-> v, ok |-> ok, samples |-> samples, sr |-> sr]

---------------------------------------------------------------------------
(* create_podcast(kokoro, available_voices, sentences) *)

row == sentences[i + 1]

in_podcast_loop == mode = "podcast" /\ pc = "loop" /\ i < Len(sentences)

\* variant: a row is skipped only when both cells are missing
skipped_both(r) == isna(r.voice) /\ isna(r.text)
skipped(r) == isna(r.voice) \/ isna(r.text)
\* variant: the membership test is left out
invalid_voice_only_empty(r) == r.voice = <<>>
invalid_voice(r) == r.voice = <<>> \/ r.voice \notin available_voices
empty_text(r) == strip(r.text) = <<>>

\* except Exception as e: print(f"Error creating podcast: {e}"); return None
podcast_except(e) ==
    /\ printed' = Append(printed, [line |-> "Error creating podcast", err |-> e])
    /\ result' = ReturnNone
    /\ pc' = "done"

\* if pd.isna(voice) or pd.isna(text): print(...); continue
podcast_skip_row ==
    /\ in_podcast_loop
    /\ skipped(row)
    /\ printed' = Append(printed, [line |-> "Skipping row", row |-> i + 1])
    /\ i' = i + 1
    /\ UNCHANGED <<mode, sentences, file, voice, pc, paragraphs, audio,
                   sample_rate, result, calls, pauses>>
    /\ UNCHANGED other_pipelines

\* raise ValueError(f"Invalid voice '{voice}' at row {i+1}")
podcast_invalid_voice ==
    /\ in_podcast_loop
    /\ ~skipped(row)
    /\ invalid_voice(row)
    /\ podcast_except(ValueError("Invalid voice", i + 1))
    /\ UNCHANGED <<mode, sentences, file, voice, i, paragraphs, audio,
                   sample_rate, calls, pauses>>
    /\ UNCHANGED other_pipelines

\* raise ValueError(f"Empty text at row {i+1}")
podcast_empty_text ==
    /\ in_podcast_loop
    /\ ~skipped(row)
    /\ ~invalid_voice(row)
    /\ empty_text(row)
    /\ podcast_except(ValueError("Empty text", i + 1))
    /\ UNCHANGED <<mode, sentences, file, voice, i, paragraphs, audio,
                   sample_rate, calls, pauses>>
    /\ UNCHANGED other_pipelines

\* variant: the engine is called before the row is validated
podcast_row_valid_unvalidated == in_podcast_loop /\ ~skipped(row)

podcast_row_valid ==
    /\ in_podcast_loop
    /\ ~skipped(row)
    /\ ~invalid_voice(row)
    /\ ~empty_text(row)

\* kokoro.create returns n samples at rate sr; the pause lasts d10 tenths of a second
podcast_synth(n, sr, d10) ==
    /\ podcast_row_valid
    /\ LET samples == segment(Len(calls) + 1, n)
           silence == zeros2(pause_frames(d10, sr))
       IN  /\ calls' = Append(calls, Call(row.text, row.voice, TRUE, samples, sr))
           /\ sample_rate' = assign_sample_rate(sample_rate, sr)
           /\ audio' = audio \o <<column_stack(samples), silence>>
           /\ pauses' = Append(pauses, [row |-> i + 1, frames |-> Len(silence)])
    /\ i' = i + 1
    /\ UNCHANGED <<mode, sentences, file, voice, pc, paragraphs, result, printed>>
    /\ UNCHANGED other_pipelines

\* kokoro.create raises
podcast_synth_fails ==
    /\ podcast_row_valid
    /\ calls' = Append(calls, Call(row.text, row.voice, FALSE, <<>>, NoRate))
    /\ podcast_except(EngineError)
    /\ UNCHANGED <<mode, sentences, file, voice, i, paragraphs, audio,
                   sample_rate, pauses>>
    /\ UNCHANGED other_pipelines

\* final_audio = np.concatenate(audio); return (sample_rate, final_audio)
podcast_concat ==
    /\ mode = "podcast" /\ pc = "loop" /\ i = Len(sentences)
    /\ IF concatenate_raises(audio)
       THEN podcast_except(ValueError("need at least one array to concatenate", 0))
       ELSE /\ result' = ReturnAudio(sample_rate, concatenate(audio))
            /\ pc' = "done"
            /\ UNCHANGED printed
    /\ UNCHANGED <<mode, sentences, file, voice, i, paragraphs, audio,
                   sample_rate, calls, pauses>>
    /\ UNCHANGED other_pipelines

---------------------------------------------------------------------------
(* text_to_audiobook(file, voice, language, speed, kokoro) *)

\* except Exception as e: print(...); raise gr.Error(f"Failed to generate audiobook: ...")
audiobook_except(e) ==
    /\ printed' = Append(printed, [line |-> "Audiobook generation error", err |-> e])
    /\ result' = RaiseGrError(e)
    /\ pc' = "done"

\* if not file: raise ValueError("Please upload a text file")
audiobook_no_file ==
    /\ mode = "audiobook" /\ pc = "start"
    /\ file = NoFile
    /\ audiobook_except(ValueError("Please upload a text file", 0))
    /\ UNCHANGED <<mode, sentences, file, voice, i, paragraphs, audio,
                   sample_rate, calls, pauses>>
    /\ UNCHANGED other_pipelines

\* open(file.name, 'r') or f.read() raises
audiobook_open_fails ==
    /\ mode = "audiobook" /\ pc = "start"
    /\ file = Unreadable
    /\ audiobook_except(OSError)
    /\ UNCHANGED <<mode, sentences, file, voice, i, paragraphs, audio,
                   sample_rate, calls, pauses>>
    /\ UNCHANGED other_pipelines

\* if not text.strip(): raise ValueError("The uploaded file is empty")
audiobook_empty_file ==
    /\ mode = "audiobook" /\ pc = "start"
    /\ file \notin {NoFile, Unreadable}
    /\ strip(file) = <<>>
    /\ audiobook_except(ValueError("The uploaded file is empty", 0))
    /\ UNCHANGED <<mode, sentences, file, voice, i, paragraphs, audio,
                   sample_rate, calls, pauses>>
    /\ UNCHANGED other_pipelines

\* paragraphs = [...]; audio_chunks = []; sample_rate = None
audiobook_split ==
    /\ mode = "audiobook" /\ pc = "start"
    /\ file \notin {NoFile, Unreadable}
    /\ strip(file) # <<>>
    /\ paragraphs' = split_paragraphs(file)
    /\ pc' = "loop"
    /\ UNCHANGED <<mode, sentences, file, voice, i, audio, sample_rate,
                   result, printed, calls, pauses>>
    /\ UNCHANGED other_pipelines

in_audiobook_loop == mode = "audiobook" /\ pc = "loop" /\ i < Len(paragraphs)

paragraph == paragraphs[i + 1]

\* kokoro.create returns n samples at rate sr
audiobook_synth(n, sr) ==
    /\ in_audiobook_loop
    /\ LET samples == segment(Len(calls) + 1, n)
           silence == zeros(pause_frames(book_pause, sr))
       IN  /\ calls' = Append(calls, Call(paragraph, voice, TRUE, samples, sr))
           /\ sample_rate' = assign_sample_rate(sample_rate, sr)
           /\ audio' = audio \o <<samples, silence>>
           /\ pauses' = Append(pauses, [row |-> i + 1, frames |-> Len(silence)])
    /\ i' = i + 1
    /\ UNCHANGED <<mode, sentences, file, voice, pc, paragraphs, result, printed>>
    /\ UNCHANGED other_pipelines

\* kokoro.create raises
audiobook_synth_fails ==
    /\ in_audiobook_loop
    /\ calls' = Append(calls, Call(paragraph, voice, FALSE, <<>>, NoRate))
    /\ audiobook_except(EngineError)
    /\ UNCHANGED <<mode, sentences, file, voice, i, paragraphs, audio,
                   sample_rate, pauses>>
    /\ UNCHANGED other_pipelines

\* final_audio = np.concatenate(audio_chunks); return (sample_rate, final_audio)
audiobook_concat ==
    /\ mode = "audiobook" /\ pc = "loop" /\ i = Len(paragraphs)
    /\ IF concatenate_raises(audio)
       THEN audiobook_except(ValueError("need at least one array to concatenate", 0))
       ELSE /\ result' = ReturnAudio(sample_rate, concatenate(audio))
            /\ pc' = "done"
            /\ UNCHANGED printed
    /\ UNCHANGED <<mode, sentences, file, voice, i, paragraphs, audio,
                   sample_rate, calls, pauses>>
    /\ UNCHANGED other_pipelines

---------------------------------------------------------------------------
(* text_to_speech(text, voice, language, speed, kokoro) *)

\* the variables of each of the other pipelines
enhance_vars == <<enh, out_file>>
color_vars == <<rgba, hex_color>>
upload_vars == <<upload, upload_result>>

\* kokoro.create(...) answers: return (sample_rate, audio_array)
single_synth(n, sr) ==
    /\ mode = "single" /\ pc = "start"
    /\ calls' = Append(calls, Call(text_input, voice, TRUE, segment(1, n), sr))
    /\ result' = ReturnAudio(sr, segment(1, n))
    /\ pc' = "done"
    /\ UNCHANGED <<mode, sentences, file, voice, i, paragraphs, audio,
                   sample_rate, printed, pauses>>
    /\ UNCHANGED other_pipelines

\* kokoro.create(...) raises: except Exception as e: return None
single_synth_fails ==
    /\ mode = "single" /\ pc = "start"
    /\ calls' = Append(calls, Call(text_input, voice, FALSE, <<>>, NoRate))
    /\ result' = ReturnNone
    /\ pc' = "done"
    /\ UNCHANGED <<mode, sentences, file, voice, i, paragraphs, audio,
                   sample_rate, printed, pauses>>
    /\ UNCHANGED other_pipelines

---------------------------------------------------------------------------
(* enhance_audio(input_file, ...) and process_audio_enhancement(...) *)

\* the enhance_audio invocations that may be in progress at once
Invocations == {"A", "B"}

\* input_file is None when nothing was uploaded
None == "None"
\* the files a user may upload; bad.wav cannot be decoded
InputFiles == {"a.wav", "b.wav", "bad.wav"}
readable(path) == path \in {"a.wav", "b.wav"}
\* the values the output-gain slider is set to in the model, in dB
Gains == {"0", "10"}

\* os.path.join(tempfile.gettempdir(), "enhanced_audio.wav")
output_file == "tmp/enhanced_audio.wav"

\* An audio buffer is the list of the operations that produced it: the file
\* it was read from, then every stage it went through, oldest first.
Stage(name, param) == [stage |-> name, param |-> param]

\* variant: the output path is opened where the input path is meant
read_output_when_present(path) ==
    IF out_file.exists /\ out_file.data # <<>>
    THEN out_file.data
    ELSE <<Stage("AudioFile", path)>>
\* AudioFile(input_path).resampled_to(sample_rate), f.read(f.frames)
read_audio(path) == <<Stage("AudioFile", path)>>

\* nr.reduce_noise(y=audio, sr=sample_rate, ...)
reduce_noise(buf) == Append(buf, Stage("reduce_noise", "prop_decrease"))

\* variant: the compressor is placed before the gate
Pedalboard_compressor_first(gain) ==
    << Stage("Compressor", "comp_threshold"),
       Stage("NoiseGate", "gate_threshold"),
       Stage("LowShelfFilter", "low_shelf_cutoff"),
       Stage("Gain", gain) >>
\* board = Pedalboard([NoiseGate(...), Compressor(...), LowShelfFilter(...), Gain(...)])
Pedalboard(gain) ==
    << Stage("NoiseGate", "gate_threshold"),
       Stage("Compressor", "comp_threshold"),
       Stage("LowShelfFilter", "low_shelf_cutoff"),
       Stage("Gain", gain) >>

\* board(audio, sample_rate): every plugin processes the output of the one
\* before it, in list order
RECURSIVE run_board(_, _)
run_board(plugins, buf) ==
    IF plugins = <<>> THEN buf
    ELSE run_board(Tail(plugins), Append(buf, Head(plugins)))

\* the PNG generate_spectrogram renders from the audio it loaded
spectrogram(buf) == [of |-> buf]

\* the file at the output path: absent, or what its last writer left there
NoOutput == [exists |-> FALSE, by |-> "nobody", data |-> <<>>]
Opened(j) == [exists |-> TRUE, by |-> j, data |-> <<>>]
Written(j, buf) == [exists |-> TRUE, by |-> j, data |-> buf]

\* exceptions of the libraries
DecodeError == [exc |-> "Exception", what |-> "cannot decode input", row |-> 0]
StageError(name) == [exc |-> "Exception", what |-> name, row |-> 0]
NoCause == [exc |-> "none", what |-> "", row |-> 0]

\* raise gr.Error(message + str(cause))
GrError(message, cause) == [kind |-> "gr.Error", prefix |-> message, cause |-> cause]
\* return output_file, input_spectrogram, output_spectrogram; holds is what the
\* returned path holds when the call returns
Returned(in_spec, out_spec, holds) ==
    [kind |-> "return", path |-> output_file, input_spectrogram |-> in_spec,
     output_spectrogram |-> out_spec, holds |-> holds]

\* one invocation before its first step
NewInvocation(f, nr, gain) ==
    [pc |-> "start", input_file |-> f, noise_reduction |-> nr,
     output_gain |-> gain, audio |-> <<>>, effected |-> <<>>,
     touched |-> FALSE, result |-> Pending]

\* except Exception as e: raise gr.Error(f"Error processing audio: {str(e)}")
enhance_except(j, e) ==
    enh' = [enh EXCEPT ![j].pc = "done",
                       ![j].result = GrError("Error processing audio: ", e)]

\* if input_file is None: raise gr.Error("Please upload an audio file.")
enhance_no_input(j) ==
    /\ enh[j].pc = "start" /\ enh[j].input_file = None
    /\ enh' = [enh EXCEPT ![j].pc = "done",
                          ![j].result = GrError("Please upload an audio file.", NoCause)]
    /\ UNCHANGED <<out_file, assembler, later_pipelines, color_vars, upload_vars>>

\* with AudioFile(input_path).resampled_to(sample_rate) as f: audio = f.read(f.frames)
enhance_read(j) ==
    /\ enh[j].pc = "start" /\ enh[j].input_file # None
    /\ readable(enh[j].input_file)
    /\ enh' = [enh EXCEPT ![j].pc = "noise",
                          ![j].audio = read_audio(enh[j].input_file)]
    /\ UNCHANGED <<out_file, assembler, later_pipelines, color_vars, upload_vars>>

enhance_read_fails(j) ==
    /\ enh[j].pc = "start" /\ enh[j].input_file # None
    /\ ~readable(enh[j].input_file)
    /\ enhance_except(j, DecodeError)
    /\ UNCHANGED <<out_file, assembler, later_pipelines, color_vars, upload_vars>>

\* if noise_reduction: audio = nr.reduce_noise(...)
enhance_noise(j) ==
    /\ enh[j].pc = "noise"
    /\ enh' = [enh EXCEPT ![j].pc = "board",
                          ![j].audio = IF enh[j].noise_reduction
                                       THEN reduce_noise(enh[j].audio)
                                       ELSE enh[j].audio]
    /\ UNCHANGED <<out_file, assembler, later_pipelines, color_vars, upload_vars>>

enhance_noise_fails(j) ==
    /\ enh[j].pc = "noise" /\ enh[j].noise_reduction
    /\ enhance_except(j, StageError("reduce_noise"))
    /\ UNCHANGED <<out_file, assembler, later_pipelines, color_vars, upload_vars>>

\* board = Pedalboard([...]); effected = board(audio, sample_rate)
enhance_board(j) ==
    /\ enh[j].pc = "board"
    /\ enh' = [enh EXCEPT ![j].pc = "open",
                          ![j].effected = run_board(Pedalboard(enh[j].output_gain),
                                                    enh[j].audio)]
    /\ UNCHANGED <<out_file, assembler, later_pipelines, color_vars, upload_vars>>

enhance_board_fails(j) ==
    /\ enh[j].pc = "board"
    /\ enhance_except(j, StageError("Pedalboard"))
    /\ UNCHANGED <<out_file, assembler, later_pipelines, color_vars, upload_vars>>

\* with AudioFile(output_path, "w", sample_rate, effected.shape[0]) as f:
\* the file is created, or truncated when it is there already
enhance_open_output(j) ==
    /\ enh[j].pc = "open"
    /\ out_file' = Opened(j)
    /\ enh' = [enh EXCEPT ![j].pc = "write", ![j].touched = TRUE]
    /\ UNCHANGED <<assembler, later_pipelines, color_vars, upload_vars>>

\* f.write(effected)
enhance_write(j) ==
    /\ enh[j].pc = "write"
    /\ out_file' = Written(j, enh[j].effected)
    /\ enh' = [enh EXCEPT ![j].pc = "spectrogram"]
    /\ UNCHANGED <<assembler, later_pipelines, color_vars, upload_vars>>

\* f.write raises: the file opened for writing stays as it is
enhance_write_fails(j) ==
    /\ enh[j].pc = "write"
    /\ enhance_except(j, StageError("write"))
    /\ UNCHANGED <<out_file, assembler, later_pipelines, color_vars, upload_vars>>

\* input_spectrogram = generate_spectrogram(input_file)
\* output_spectrogram = generate_spectrogram(output_file)
\* return output_file, input_spectrogram, output_spectrogram
enhance_return(j) ==
    /\ enh[j].pc = "spectrogram"
    /\ out_file.data # <<>>
    /\ enh' = [enh EXCEPT ![j].pc = "done",
                          ![j].result = Returned(spectrogram(read_audio(enh[j].input_file)),
                                                 spectrogram(out_file.data),
                                                 out_file.data)]
    /\ UNCHANGED <<out_file, assembler, later_pipelines, color_vars, upload_vars>>

\* librosa.load fails on the file another invocation has just truncated:
\* raise gr.Error(f"Error loading audio file for spectrogram: {str(e)}")
enhance_spectrogram_fails(j) ==
    /\ enh[j].pc = "spectrogram"
    /\ out_file.data = <<>>
    /\ enh' = [enh EXCEPT ![j].pc = "done",
                          ![j].result = GrError("Error loading audio file for spectrogram: ",
                                                DecodeError)]
    /\ UNCHANGED <<out_file, assembler, later_pipelines, color_vars, upload_vars>>

---------------------------------------------------------------------------
(* validate_color(rgba) *)

\* most components of a tuple, and most numbers of an "rgba(...)" string
MaxComponents == 5
\* most characters after the "#" of a string
MaxHexDigits == 7

\* A number is held in halves, so that x.5 is a value: Num(511) is 255.5.
Num(h) == [num |-> TRUE, h |-> h]
\* a component that is no number (a str, None)
NonNumeric == [num |-> FALSE, h |-> 0]
Components == {Num(h) : h \in {-2, -1, 0, 1, 256, 510, 600}} \cup {NonNumeric}

\* the numbers written in the strings of the model, with their values in halves
NumberTokens == {"0", "1", "128", "255", "0.5", "300", "x"}
is_float(tok) == tok \in {"0", "1", "128", "255", "0.5", "300"}
float(tok) ==
    CASE tok = "0" -> 0
      [] tok = "1" -> 2
      [] tok = "128" -> 256
      [] tok = "255" -> 510
      [] tok = "0.5" -> 1
      [] tok = "300" -> 600

\* ",".join(parts)
RECURSIVE join(_)
join(parts) ==
    IF parts = <<>> THEN <<>>
    ELSE IF Len(parts) = 1 THEN <<parts[1]>>
    ELSE <<parts[1], ",">> \o join(Tail(parts))

Str(s) == [type |-> "str", value |-> s]
Tuple(t, v) == [type |-> t, value |-> v]
NoneArg == [type |-> "NoneType", value |-> <<>>]

\* the characters after the "#" of the strings of the model
HashChars == {"A", "0", "z"}
\* a list of numbers is written bare or inside rgba( )
Wraps == { <<(<<>>), (<<>>)>>, <<(<<"r", "g", "b", "a", "(">>), (<<")">>)>> }

HexDigits == {"0", "1", "2", "3", "4", "5", "6", "7", "8", "9",
              "a", "b", "c", "d", "e", "f", "A", "B", "C", "D", "E", "F"}

\* re.match(r"^#(?:[0-9a-fA-F]{3}){1,2}$", s): "$" also matches before a
\* newline that ends the string
hex_match(s) ==
    LET body == IF s # <<>> /\ s[Len(s)] = NL THEN SubSeq(s, 1, Len(s) - 1) ELSE s
    IN  /\ Len(body) \in {4, 7}
        /\ body[1] = "#"
        /\ \A k \in 2..Len(body) : body[k] \in HexDigits

\* s.strip("rgba()")
strip_chars == {"r", "g", "b", "a", "(", ")"}
RECURSIVE lstrip_rgba(_)
lstrip_rgba(s) ==
    IF s # <<>> /\ Head(s) \in strip_chars THEN lstrip_rgba(Tail(s)) ELSE s
RECURSIVE rstrip_rgba(_)
rstrip_rgba(s) ==
    IF s # <<>> /\ s[Len(s)] \in strip_chars
    THEN rstrip_rgba(SubSeq(s, 1, Len(s) - 1)) ELSE s
strip_rgba(s) == rstrip_rgba(lstrip_rgba(s))

\* s.split(","): the pieces between the commas, "" gives [""]
RECURSIVE split_comma(_)
split_comma(s) ==
    IF \E k \in 1..Len(s) : s[k] = ","
    THEN LET k == CHOOSE k \in 1..Len(s) :
                      s[k] = "," /\ \A m \in 1..(k - 1) : s[m] # ","
         IN  <<SubSeq(s, 1, k - 1)>> \o split_comma(SubSeq(s, k + 1, Len(s)))
    ELSE <<s>>

\* float(piece) answers for a piece that is one number
parses(piece) == Len(piece) = 1 /\ is_float(piece[1])

\* how a call ends
ReturnColor(c) == [kind |-> "return", color |-> c, exc |-> "", what |-> ""]
Raise(exc, what) == [kind |-> "raise", color |-> <<>>, exc |-> exc, what |-> what]

\* round(c): to the nearest integer, a tie to the even one
round(h) ==
    IF h % 2 = 0 THEN h \div 2
    ELSE LET lo == (h - 1) \div 2
         IN  IF lo % 2 = 0 THEN lo ELSE lo + 1

\* format(n, "02x")
hex_digits == <<"0", "1", "2", "3", "4", "5", "6", "7", "8", "9",
                "a", "b", "c", "d", "e", "f">>
\* variant: the low digit is written first
format_02x_swapped(n) == <<hex_digits[(n % 16) + 1], hex_digits[(n \div 16) + 1]>>
format_02x(n) == <<hex_digits[(n \div 16) + 1], hex_digits[(n % 16) + 1]>>

\* variant: a component out of range is clamped
to_hex_clamping(rgb) ==
    LET clamp(n) == IF n < 0 THEN 0 ELSE IF n > 255 THEN 255 ELSE n
    IN  ReturnColor(<<"#">> \o format_02x(clamp(rgb[1])) \o format_02x(clamp(rgb[2]))
                            \o format_02x(clamp(rgb[3])))
\* mcolors.to_hex([c / 255 for c in rgb]): to_rgba refuses a value outside 0-1
to_hex(rgb) ==
    IF \E k \in 1..3 : rgb[k] < 0 \/ rgb[k] > 255
    THEN Raise("ValueError", "RGBA values should be within 0-1 range")
    ELSE ReturnColor(<<"#">> \o format_02x(rgb[1]) \o format_02x(rgb[2])
                            \o format_02x(rgb[3]))

\* the part of validate_color after the string was parsed
convert(arg) ==
    IF arg.type \notin {"tuple", "list"} \/ Len(arg.value) # 4
    THEN Raise("ValueError", "Invalid RGBA format. Expected a tuple (R, G, B, A)")
    ELSE IF \E k \in 1..3 : ~arg.value[k].num
    THEN Raise("TypeError", "type doesn't define __round__ method")
    ELSE to_hex([k \in 1..3 |-> round(arg.value[k].h)])

validate_color(arg) ==
    IF arg.type = "str" /\ hex_match(arg.value)
    THEN ReturnColor(arg.value)
    ELSE IF arg.type = "str"
    THEN LET pieces == split_comma(strip_rgba(arg.value))
         IN  IF \E k \in 1..Len(pieces) : ~parses(pieces[k])
             THEN Raise("ValueError", "could not convert string to float")
             ELSE convert(Tuple("tuple", [k \in 1..Len(pieces) |-> Num(float(pieces[k][1]))]))
    ELSE convert(arg)

\* the call
call_validate_color ==
    /\ hex_color = Pending
    /\ hex_color' = validate_color(rgba)
    /\ UNCHANGED <<rgba, assembler, later_pipelines, enhance_vars, upload_vars>>

---------------------------------------------------------------------------
(* handle_file_upload(file) *)

\* most lines of an uploaded script
MaxFileLines == 3

\* the lines the uploaded scripts of the model are made of
LineShapes ==
    { <<>>,
      <<SP>>,
      <<"a", "f", ":", "h", "i">>,
      <<SP, "A", "F", SP, ":", SP, "h", ":", "i", SP>>,
      <<"a", "m", ":", "i">>,
      <<"z", "z", ":", "h", "i">>,
      <<"a", "f", ":", SP>>,
      <<"a", "f", "h", "i">>,
      <<":", "h", "i">> }

\* "\n".join(lines)
RECURSIVE join_lines(_)
join_lines(lines) ==
    IF lines = <<>> THEN <<>>
    ELSE IF Len(lines) = 1 THEN lines[1]
    ELSE lines[1] \o <<NL>> \o join_lines(Tail(lines))

\* the position of the first c in s, 0 when there is none
index_of(s, c) ==
    IF \E k \in 1..Len(s) : s[k] = c
    THEN CHOOSE k \in 1..Len(s) : s[k] = c /\ \A m \in 1..(k - 1) : s[m] # c
    ELSE 0

\* content.splitlines()
RECURSIVE splitlines(_)
splitlines(s) ==
    IF s = <<>> THEN <<>>
    ELSE IF index_of(s, NL) = 0 THEN <<s>>
    ELSE <<SubSeq(s, 1, index_of(s, NL) - 1)>>
         \o splitlines(SubSeq(s, index_of(s, NL) + 1, Len(s)))

\* s.lower()
lower_char(c) == IF c = "A" THEN "a" ELSE IF c = "F" THEN "f" ELSE c
lower(s) == [k \in 1..Len(s) |-> lower_char(s[k])]

\* variant: the line is cut at its last colon
partition_at_last(line) ==
    LET k == CHOOSE k \in 1..Len(line) :
                 line[k] = ":" /\ \A m \in (k + 1)..Len(line) : line[m] # ":"
    IN  [voice_part |-> SubSeq(line, 1, k - 1),
         text_part |-> SubSeq(line, k + 1, Len(line))]
\* voice_part, _, text_part = line.partition(":")
partition(line) ==
    [voice_part |-> SubSeq(line, 1, index_of(line, ":") - 1),
     text_part |-> SubSeq(line, index_of(line, ":") + 1, Len(line))]

\* raise gr.Error(f"Line {line_num}: ...") and, around it,
\* except Exception as e: raise gr.Error(f"File processing error: {str(e)}")
LineError(line_num, what) ==
    GrError("File processing error: ", [exc |-> "gr.Error", what |-> what, row |-> line_num])
\* return pd.DataFrame(data, columns=["voice", "text"])
ReturnTable(data) == [kind |-> "table", rows |-> data]

\* variant: line numbers count the non-blank lines only
next_line_num_nonblank(line_num, line) == IF strip(line) = <<>> THEN line_num ELSE line_num + 1
\* enumerate(content.splitlines(), 1)
next_line_num(line_num, line) == line_num + 1

\* the loop over the lines, from line line_num on, with the rows found so far
RECURSIVE parse_lines(_, _, _)
parse_lines(lines, line_num, data) ==
    IF lines = <<>> THEN ReturnTable(data)
    ELSE LET line == strip(Head(lines))
             parts == partition(line)
             v == lower(strip(parts.voice_part))
             t == strip(parts.text_part)
             rest == Tail(lines)
             n == next_line_num(line_num, Head(lines))
         IN  IF line = <<>> THEN parse_lines(rest, n, data)
             ELSE IF index_of(line, ":") = 0
             THEN LineError(line_num, "Missing colon separator")
             ELSE IF v \notin available_voices
             THEN LineError(line_num, "Voice not in available voices")
             ELSE IF t = <<>>
             THEN LineError(line_num, "Empty text after colon")
             ELSE parse_lines(rest, n, Append(data, [voice |-> v, text |-> t]))

handle_file_upload ==
    /\ upload_result = Pending
    /\ upload_result' = IF upload = Unreadable
                        THEN GrError("File processing error: ", OSError)
                        ELSE parse_lines(splitlines(upload), 1, <<>>)
    /\ UNCHANGED <<upload, assembler, later_pipelines, enhance_vars, color_vars>>

---------------------------------------------------------------------------
(* The podcast table: add_line, clear_table, load_example and the upload    *)
(* handler write their result to podcast_input; a handler that raises       *)
(* gr.Error writes nothing.                                                 *)

\* bounds: the rows a table may reach through Add Line, and the lines of an
\* uploaded script
MaxRows == 9
MaxScriptLines == 1

\* EXAMPLE_SENTENCES: eight rows spoken by af_sarah, am_michael and af_nicole,
\* each with a text; the voices are voices of the shipped voices file
EXAMPLE_SENTENCES ==
    << [voice |-> <<"a", "f">>, text |-> <<"h", "i">>],
       [voice |-> <<"a", "m">>, text |-> <<"i">>],
       [voice |-> <<"a", "f">>, text |-> <<"h", "i">>],
       [voice |-> <<"a", "f">>, text |-> <<"h", "i">>],
       [voice |-> <<"a", "f">>, text |-> <<"h", SP, "i">>],
       [voice |-> <<"a", "m">>, text |-> <<"i">>],
       [voice |-> <<"a", "f">>, text |-> <<"h", "i">>],
       [voice |-> <<"a", "m">>, text |-> <<"i">>] >>

\* what the voice dropdown and the text box can hold when Add Line is clicked
DropdownValues == {<<>>, <<"a", "f">>, <<"z", "z">>}
TextboxValues == {<<>>, <<SP>>, <<SP, "h">>}

\* variant: the new row is put before the existing rows
concat_new_first(existing_data, new_row) == <<new_row>> \o existing_data
\* pd.concat([existing_data, new_row], ignore_index=True)
concat(existing_data, new_row) == existing_data \o <<new_row>>

add_line(v, t, existing_data) ==
    IF v = <<>> \/ v \notin available_voices
    THEN GrError("Please select a valid voice from the dropdown", NoCause)
    ELSE IF strip(t) = <<>>
    THEN GrError("Please enter some text for the speech line", NoCause)
    ELSE ReturnTable(concat(existing_data, [voice |-> v, text |-> t]))

\* return []
clear_table == ReturnTable(<<>>)

load_example == ReturnTable(EXAMPLE_SENTENCES)

\* the event wiring: outputs=[podcast_input] receives what fn returned, and
\* keeps its value when fn raised
TableOp(op, v, t, content) == [op |-> op, voice |-> v, text |-> t, content |-> content]
set_output(returned) ==
    /\ table_result' = returned
    /\ podcast_input' = IF returned.kind = "table" THEN returned.rows ELSE podcast_input
    /\ UNCHANGED <<chat_vars, playground_vars, record_vars, assembler, enhance_vars,
                   color_vars, upload_vars>>

add_btn_click ==
    \E v \in DropdownValues, t \in TextboxValues :
        /\ Len(podcast_input) < MaxRows
        /\ table_op' = TableOp("add", v, t, <<>>)
        /\ set_output(add_line(v, t, podcast_input))

clear_btn_click ==
    /\ table_op' = TableOp("clear", <<>>, <<>>, <<>>)
    /\ set_output(clear_table)

example_btn_click ==
    /\ table_op' = TableOp("example", <<>>, <<>>, <<>>)
    /\ set_output(load_example)

file_upload_upload ==
    \/ \E n \in 0..MaxScriptLines : \E ls \in [1..n -> LineShapes] :
           /\ table_op' = TableOp("upload", <<>>, <<>>, join_lines(ls))
           /\ set_output(parse_lines(splitlines(join_lines(ls)), 1, <<>>))
    \/ /\ table_op' = TableOp("upload", <<>>, <<>>, Unreadable)
       /\ set_output(GrError("File processing error: ", OSError))

---------------------------------------------------------------------------
(* playground_pipeline(prompt, model, voice, language, speed, kokoro) and   *)
(* get_ollama_response(prompt, model).  A text is a sequence of characters  *)
(* or, for a message, of the pieces it is made of.                          *)

\* what get_available_models can put in the model dropdown
NoModelsFound == <<"No models", " found - please pull a model first using 'ollama pull <model_name>'">>
ErrorConnecting == <<"Error", " connecting to Ollama">>
ErrorServer == <<"Error", ": Is Ollama server running? Start with 'ollama serve'">>
Placeholders == {NoModelsFound, ErrorConnecting, ErrorServer}
ModelNames == {<<"gemma">>, <<"llama">>, <<"phi">>}

\* s.startswith(prefix), prefix being one piece
startswith(s, prefix) == Len(s) > 0 /\ s[1] = prefix

\* the prompts, the backend's answers and the exceptions of the model
Prompts == {<<>>, <<SP>>, <<"h", "i">>, <<SP, "h">>}
Responses == {<<>>, <<SP>>, <<NL, SP>>, <<"o", "k">>, <<"h", "i", NL>>}
BackendErrors == {"connection refused", "model not found"}

\* a call of the chat backend or of the synthesis engine, with its text
BackendCall(fn, arg, t, ok) == [fn |-> fn, model |-> arg, text |-> t, ok |-> ok]

\* return message, None
ReturnMessage(message) == [kind |-> "playground", text |-> message, audio |-> ReturnNone]
\* return ai_response, (sample_rate, audio_array)
ReturnSpoken(t, sr, buf) == [kind |-> "playground", text |-> t, audio |-> ReturnAudio(sr, buf)]

\* return f"Error: {str(e)}"
error_text(e) == <<"Error: ", e>>

pg_done(r) ==
    /\ pg_result' = r
    /\ pg_pc' = "done"
    /\ UNCHANGED <<pg_args, ai_response, pg_calls>>
    /\ UNCHANGED <<table_vars, chat_vars, record_vars, assembler, enhance_vars,
                   color_vars, upload_vars>>

\* if not prompt or prompt.strip() == "": return "Please provide some text input", None
pg_no_prompt ==
    /\ pg_pc = "start"
    /\ pg_args.prompt = <<>> \/ strip(pg_args.prompt) = <<>>
    /\ pg_done(ReturnMessage(<<"Please provide some text input">>))

\* if model.startswith("Error") or model.startswith("No models"): return ..., None
pg_no_model ==
    /\ pg_pc = "start"
    /\ ~(pg_args.prompt = <<>> \/ strip(pg_args.prompt) = <<>>)
    /\ startswith(pg_args.model, "Error") \/ startswith(pg_args.model, "No models")
    /\ pg_done(ReturnMessage(<<"Please install and select a valid model first">>))

pg_chat(answer, ok) ==
    /\ ~(pg_args.prompt = <<>> \/ strip(pg_args.prompt) = <<>>)
    /\ ~(startswith(pg_args.model, "Error") \/ startswith(pg_args.model, "No models"))
    /\ pg_calls' = Append(pg_calls, BackendCall("ollama.generate", pg_args.model,
                                                pg_args.prompt, ok))
    /\ ai_response' = answer
    /\ pg_pc' = "chatted"
    /\ UNCHANGED <<pg_args, pg_result>>
    /\ UNCHANGED <<table_vars, chat_vars, record_vars, assembler, enhance_vars,
                   color_vars, upload_vars>>

\* get_ollama_response: return response['response']
get_ollama_response_returns ==
    /\ pg_pc = "start"
    /\ \E answer \in Responses : pg_chat(answer, TRUE)

\* get_ollama_response: except Exception as e: return f"Error: {str(e)}"
get_ollama_response_fails ==
    /\ pg_pc = "start"
    /\ \E e \in BackendErrors : pg_chat(error_text(e), FALSE)

\* if not ai_response or ai_response.strip() == "": return "Received empty ...", None
pg_empty_response ==
    /\ pg_pc = "chatted"
    /\ ai_response = <<>> \/ strip(ai_response) = <<>>
    /\ pg_done(ReturnMessage(<<"Received empty response from AI model">>))

pg_create(r, ok) ==
    /\ ~(ai_response = <<>> \/ strip(ai_response) = <<>>)
    /\ pg_calls' = Append(pg_calls, BackendCall("kokoro.create", <<>>, ai_response, ok))
    /\ pg_result' = r
    /\ pg_pc' = "done"
    /\ UNCHANGED <<pg_args, ai_response>>
    /\ UNCHANGED <<table_vars, chat_vars, record_vars, assembler, enhance_vars,
                   color_vars, upload_vars>>

\* kokoro.create(text=ai_response, ...) answers: return ai_response, (sample_rate, audio_array)
pg_synth ==
    /\ pg_pc = "chatted"
    /\ \E n \in SegmentLens, sr \in Rates :
           pg_create(ReturnSpoken(ai_response, sr, segment(1, n)), TRUE)

\* kokoro.create raises: except Exception as e: return str(e), None
pg_synth_fails ==
    /\ pg_pc = "chatted"
    /\ pg_create(ReturnMessage(<<"synthesis failed">>), FALSE)

---------------------------------------------------------------------------
(* terminal_chatbot_conversation() and get_available_models().  A message   *)
(* of the history is known by who said it and by its number in the order    *)
(* the messages were appended.                                              *)

\* bound: the loop iterations of one conversation
MaxTurns == 12

\* conversation_history[-20:]
history_limit == 20

\* sorted(models): the names in increasing order
ModelOrder == << <<"gemma">>, <<"llama">>, <<"phi">> >>
sorted(names) == SelectSeq(ModelOrder, LAMBDA m : m \in names)

\* f"You: {user_input}" and f"Assistant: {assistant_response}"
Message(who, n) == [who |-> who, n |-> n]

\* variant: the oldest messages are kept
first_messages(history) ==
    IF Len(history) > history_limit THEN SubSeq(history, 1, history_limit) ELSE history
\* if len(conversation_history) > 20: conversation_history = conversation_history[-20:]
last_messages(history) ==
    IF Len(history) > history_limit
    THEN SubSeq(history, Len(history) - history_limit + 1, Len(history))
    ELSE history

chat_rest == <<table_vars, playground_vars, record_vars, assembler, enhance_vars,
               color_vars, upload_vars>>

\* get_available_models: status 200; return sorted(models), or the message when
\* there is none
get_available_models_returns ==
    /\ chat_pc = "start"
    /\ \E names \in SUBSET ModelNames :
           models' = IF names = {} THEN <<NoModelsFound>> ELSE sorted(names)
    /\ chat_pc' = "select"
    /\ UNCHANGED <<model, conversation_history, turns, said, sent, chat_rest>>

\* get_available_models: another status, or the request raises
get_available_models_fails ==
    /\ chat_pc = "start"
    /\ models' \in {<<ErrorConnecting>>, <<ErrorServer>>}
    /\ chat_pc' = "select"
    /\ UNCHANGED <<model, conversation_history, turns, said, sent, chat_rest>>

\* if models and not models[0].startswith("Error"):
\*     try: model = models[1]  except IndexError: model = models[0]
chat_select_model ==
    /\ chat_pc = "select"
    /\ models # <<>> /\ ~startswith(models[1], "Error")
    /\ model' = IF Len(models) >= 2 THEN models[2] ELSE models[1]
    /\ chat_pc' = "loop"
    /\ UNCHANGED <<models, conversation_history, turns, said, sent, chat_rest>>

\* else: print("No valid model available - ..."); return
chat_no_model ==
    /\ chat_pc = "select"
    /\ ~(models # <<>> /\ ~startswith(models[1], "Error"))
    /\ chat_pc' = "returned"
    /\ UNCHANGED <<models, model, conversation_history, turns, said, sent, chat_rest>>

\* record_audio or transcribe_with_whisper raises: print and continue
chat_not_heard ==
    /\ chat_pc = "loop" /\ turns < MaxTurns
    /\ turns' = turns + 1
    /\ UNCHANGED <<models, model, conversation_history, chat_pc, said, sent, chat_rest>>

\* if user_input.lower() == "exit": break
chat_exit ==
    /\ chat_pc = "loop" /\ turns < MaxTurns
    /\ turns' = turns + 1
    /\ chat_pc' = "exited"
    /\ UNCHANGED <<models, model, conversation_history, said, sent, chat_rest>>

\* conversation_history.append(f"You: {user_input}")
chat_heard ==
    /\ chat_pc = "loop" /\ turns < MaxTurns
    /\ turns' = turns + 1
    /\ conversation_history' = Append(conversation_history, Message("You", said + 1))
    /\ said' = said + 1
    /\ chat_pc' = "asked"
    /\ UNCHANGED <<models, model, sent, chat_rest>>

\* assistant_response = get_ollama_response(user_input, model), which answers or
\* returns the text of the error;
\* conversation_history.append(f"Assistant: {assistant_response}")
chat_answer ==
    /\ chat_pc = "asked"
    /\ sent' = Append(sent, model)
    /\ conversation_history' = Append(conversation_history, Message("Assistant", said + 1))
    /\ said' = said + 1
    /\ chat_pc' = "answered"
    /\ UNCHANGED <<models, model, turns, chat_rest>>

\* generate_audio and play_audio, which play or print the error, and then
\* the limit of the history
chat_limit_history ==
    /\ chat_pc = "answered"
    /\ conversation_history' = last_messages(conversation_history)
    /\ chat_pc' = "loop"
    /\ UNCHANGED <<models, model, turns, said, sent, chat_rest>>

---------------------------------------------------------------------------
(* record_audio(file_path): the recording thread and the input thread it    *)
(* starts.  A chunk is known by its number in the order the stream gave it. *)

\* bound: the chunks the stream gives while the event is unset
MaxChunks == 6

\* variant: the last chunk is left out
join_all_but_last(chunks) == SubSeq(chunks, 1, Len(chunks) - 1)
\* b''.join(frames)
join_frames(chunks) == chunks

rec_rest == <<table_vars, chat_vars, playground_vars, assembler, enhance_vars,
              color_vars, upload_vars>>

\* stop_recording_event = threading.Event(); input_thread.start()
rec_start_thread ==
    /\ rec_pc = "start"
    /\ input_thread' = "waiting"
    /\ rec_pc' = "open"
    /\ UNCHANGED <<stop_recording_event, frames, captured, late_reads, wav_file, rec_rest>>

\* wait_for_enter: input("\n") returns when the user presses Enter
wait_for_enter_input ==
    /\ input_thread = "waiting"
    /\ input_thread' = "entered"
    /\ UNCHANGED <<stop_recording_event, rec_pc, frames, captured, late_reads, wav_file,
                   rec_rest>>

\* wait_for_enter: stop_recording_event.set()
wait_for_enter_set ==
    /\ input_thread = "entered"
    /\ stop_recording_event' = TRUE
    /\ input_thread' = "set"
    /\ UNCHANGED <<rec_pc, frames, captured, late_reads, wav_file, rec_rest>>

\* wait_for_enter returns and the thread ends
wait_for_enter_return ==
    /\ input_thread = "set"
    /\ input_thread' = "finished"
    /\ UNCHANGED <<stop_recording_event, rec_pc, frames, captured, late_reads, wav_file,
                   rec_rest>>

\* p = pyaudio.PyAudio(); stream = p.open(...); frames = []
rec_open ==
    /\ rec_pc = "open"
    /\ frames' = <<>>
    /\ rec_pc' = "check"
    /\ UNCHANGED <<stop_recording_event, input_thread, captured, late_reads, wav_file,
                   rec_rest>>

\* while not stop_recording_event.is_set(): the event is unset, the body runs
rec_loop_enter ==
    /\ rec_pc = "check"
    /\ ~stop_recording_event
    /\ captured < MaxChunks
    /\ rec_pc' = "read"
    /\ UNCHANGED <<stop_recording_event, input_thread, frames, captured, late_reads,
                   wav_file, rec_rest>>

\* while not stop_recording_event.is_set(): the event is set, the loop ends
rec_loop_exit ==
    /\ rec_pc = "check"
    /\ stop_recording_event
    /\ rec_pc' = "stopped"
    /\ UNCHANGED <<stop_recording_event, input_thread, frames, captured, late_reads,
                   wav_file, rec_rest>>

\* data = stream.read(1024); frames.append(data)
rec_read ==
    /\ rec_pc = "read"
    /\ captured' = captured + 1
    /\ frames' = Append(frames, captured + 1)
    /\ late_reads' = IF stop_recording_event THEN late_reads + 1 ELSE late_reads
    /\ rec_pc' = "check"
    /\ UNCHANGED <<stop_recording_event, input_thread, wav_file, rec_rest>>

\* p.open(...) or stream.read(1024) raises: record_audio raises
rec_device_fails ==
    /\ rec_pc \in {"open", "read"}
    /\ rec_pc' = "raised"
    /\ UNCHANGED <<stop_recording_event, input_thread, frames, captured, late_reads,
                   wav_file, rec_rest>>

\* stream.stop_stream(); stream.close(); p.terminate(); input_thread.join()
\* returns once the input thread has ended
rec_join ==
    /\ rec_pc = "stopped"
    /\ input_thread = "finished"
    /\ rec_pc' = "joined"
    /\ UNCHANGED <<stop_recording_event, input_thread, frames, captured, late_reads,
                   wav_file, rec_rest>>

\* wf = wave.open(file_path, "wb"); ...; wf.writeframes(b''.join(frames)); wf.close()
rec_write ==
    /\ rec_pc = "joined"
    /\ wav_file' = [written |-> TRUE, frames |-> join_frames(frames)]
    /\ rec_pc' = "done"
    /\ UNCHANGED <<stop_recording_event, input_thread, frames, captured, late_reads,
                   rec_rest>>

---------------------------------------------------------------------------
(* A pipeline that is not the one running *)

IdleInvocation == [NewInvocation(None, FALSE, "0") EXCEPT !.pc = "idle"]
IdleEnhance ==
    /\ enh = [j \in Invocations |-> IdleInvocation]
    /\ out_file = NoOutput
IdleColor ==
    /\ rgba = NoneArg
    /\ hex_color = Pending
IdleUpload ==
    /\ upload = NoFile
    /\ upload_result = Pending
IdleTable ==
    /\ podcast_input = <<>>
    /\ table_op = [op |-> "none", voice |-> <<>>, text |-> <<>>, content |-> <<>>]
    /\ table_result = Pending
IdleChat ==
    /\ models = <<>>
    /\ model = <<>>
    /\ conversation_history = <<>>
    /\ chat_pc = "idle"
    /\ turns = 0
    /\ said = 0
    /\ sent = <<>>
IdlePlayground ==
    /\ pg_args = [prompt |-> <<>>, model |-> ""]
    /\ pg_pc = "idle"
    /\ ai_response = <<>>
    /\ pg_result = Pending
    /\ pg_calls = <<>>
IdleRecord ==
    /\ stop_recording_event = FALSE
    /\ input_thread = "idle"
    /\ rec_pc = "idle"
    /\ frames = <<>>
    /\ captured = 0
    /\ late_reads = 0
    /\ wav_file = [written |-> FALSE, frames |-> <<>>]
IdleLater == IdleTable /\ IdleChat /\ IdlePlayground /\ IdleRecord
IdleAssembler ==
    /\ mode = "none"
    /\ sentences = <<>>
    /\ file = NoFile
    /\ voice = NaN
    /\ text_input = <<>>
    /\ pc = "done"
    /\ i = 0
    /\ paragraphs = <<>>
    /\ audio = <<>>
    /\ sample_rate = NoRate
    /\ result = Pending
    /\ printed = <<>>
    /\ calls = <<>>
    /\ pauses = <<>>

---------------------------------------------------------------------------
(* The assembler: one call of create_podcast or of text_to_audiobook *)

Init ==
    /\ mode \in {"podcast", "audiobook"}
    /\ IF mode = "podcast"
       THEN /\ sentences \in Scripts
            /\ file = NoFile
            /\ voice = NaN
            /\ pc = "loop"
       ELSE /\ sentences = <<>>
            /\ file \in Texts \cup {NoFile, Unreadable}
            /\ voice \in available_voices
            /\ pc = "start"
    /\ i = 0
    /\ paragraphs = <<>>
    /\ audio = <<>>
    /\ sample_rate = NoRate
    /\ result = Pending
    /\ printed = <<>>
    /\ calls = <<>>
    /\ pauses = <<>>
    /\ text_input = <<>>
    /\ IdleEnhance /\ IdleColor /\ IdleUpload /\ IdleLater

Next ==
    \/ podcast_skip_row
    \/ podcast_invalid_voice
    \/ podcast_empty_text
    \/ \E n \in SegmentLens, sr \in Rates, d10 \in silence_low..silence_high :
           podcast_synth(n, sr, d10)
    \/ podcast_synth_fails
    \/ podcast_concat
    \/ audiobook_no_file
    \/ audiobook_open_fails
    \/ audiobook_empty_file
    \/ audiobook_split
    \/ \E n \in SegmentLens, sr \in Rates : audiobook_synth(n, sr)
    \/ audiobook_synth_fails
    \/ audiobook_concat

Spec == Init /\ [][Next]_vars

---------------------------------------------------------------------------
(* The entry points of the synthesis tabs: one call of create_podcast, of *)
(* text_to_audiobook or of text_to_speech                                  *)

SingleInit ==
    /\ mode = "single"
    /\ text_input \in Texts
    /\ voice \in available_voices
    /\ sentences = <<>>
    /\ file = NoFile
    /\ pc = "start"
    /\ i = 0
    /\ paragraphs = <<>>
    /\ audio = <<>>
    /\ sample_rate = NoRate
    /\ result = Pending
    /\ printed = <<>>
    /\ calls = <<>>
    /\ pauses = <<>>
    /\ IdleEnhance /\ IdleColor /\ IdleUpload /\ IdleLater

EntryInit == Init \/ SingleInit

EntryNext ==
    \/ Next
    \/ \E n \in SegmentLens, sr \in Rates : single_synth(n, sr)
    \/ single_synth_fails

EntrySpec == EntryInit /\ [][EntryNext]_vars

---------------------------------------------------------------------------
(* The enhancement tab: the invocations of enhance_audio, one step of one *)
(* of them at a time                                                       *)

EnhanceInit ==
    /\ enh \in [Invocations -> {NewInvocation(f, nr, gain) :
                                   f \in InputFiles \cup {None},
                                   nr \in BOOLEAN, gain \in Gains}]
    /\ out_file = NoOutput
    /\ IdleAssembler /\ IdleColor /\ IdleUpload /\ IdleLater

EnhanceNext ==
    \E j \in Invocations :
        \/ enhance_no_input(j)
        \/ enhance_read(j)
        \/ enhance_read_fails(j)
        \/ enhance_noise(j)
        \/ enhance_noise_fails(j)
        \/ enhance_board(j)
        \/ enhance_board_fails(j)
        \/ enhance_open_output(j)
        \/ enhance_write(j)
        \/ enhance_write_fails(j)
        \/ enhance_return(j)
        \/ enhance_spectrogram_fails(j)

EnhanceSpec == EnhanceInit /\ [][EnhanceNext]_vars

---------------------------------------------------------------------------
(* The colour helper: one call of validate_color *)

ColorInit ==
    /\ \/ \E n \in 0..MaxHexDigits : \E body \in [1..n -> HashChars] :
              \E tail \in {<<>>, <<NL>>} : rgba = Str(<<"#">> \o body \o tail)
       \/ \E n \in 0..MaxComponents : \E parts \in [1..n -> NumberTokens] :
              \E wrap \in Wraps : rgba = Str(wrap[1] \o join(parts) \o wrap[2])
       \/ \E n \in 0..MaxComponents : \E v \in [1..n -> Components] :
              \E t \in {"tuple", "list"} : rgba = Tuple(t, v)
       \/ rgba = NoneArg
    /\ hex_color = Pending
    /\ IdleAssembler /\ IdleEnhance /\ IdleUpload /\ IdleLater

ColorNext == call_validate_color

ColorSpec == ColorInit /\ [][ColorNext]_vars

---------------------------------------------------------------------------
(* The script upload: one call of handle_file_upload *)

UploadInit ==
    /\ \/ \E n \in 0..MaxFileLines : \E ls \in [1..n -> LineShapes] :
              upload = join_lines(ls)
       \/ upload = Unreadable
    /\ upload_result = Pending
    /\ IdleAssembler /\ IdleEnhance /\ IdleColor /\ IdleLater

UploadNext == handle_file_upload

UploadSpec == UploadInit /\ [][UploadNext]_vars

---------------------------------------------------------------------------
(* The podcast table, from the empty table on *)

TableInit ==
    /\ IdleTable
    /\ IdleAssembler /\ IdleEnhance /\ IdleColor /\ IdleUpload
    /\ IdleChat /\ IdlePlayground /\ IdleRecord

TableNext ==
    \/ add_btn_click
    \/ clear_btn_click
    \/ example_btn_click
    \/ file_upload_upload

TableSpec == TableInit /\ [][TableNext]_vars

---------------------------------------------------------------------------
(* playground_pipeline: one call, from its arguments *)

PlaygroundInit ==
    /\ pg_args \in [prompt : Prompts, model : ModelNames \cup Placeholders]
    /\ pg_pc = "start"
    /\ ai_response = <<>>
    /\ pg_result = Pending
    /\ pg_calls = <<>>
    /\ IdleAssembler /\ IdleEnhance /\ IdleColor /\ IdleUpload
    /\ IdleTable /\ IdleChat /\ IdleRecord

PlaygroundNext ==
    \/ pg_no_prompt
    \/ pg_no_model
    \/ get_ollama_response_returns
    \/ get_ollama_response_fails
    \/ pg_empty_response
    \/ pg_synth
    \/ pg_synth_fails

PlaygroundSpec == PlaygroundInit /\ [][PlaygroundNext]_vars

---------------------------------------------------------------------------
(* terminal_chatbot_conversation: one conversation *)

ChatInit ==
    /\ models = <<>>
    /\ model = <<>>
    /\ conversation_history = <<>>
    /\ chat_pc = "start"
    /\ turns = 0
    /\ said = 0
    /\ sent = <<>>
    /\ IdleAssembler /\ IdleEnhance /\ IdleColor /\ IdleUpload
    /\ IdleTable /\ IdlePlayground /\ IdleRecord

ChatNext ==
    \/ get_available_models_returns
    \/ get_available_models_fails
    \/ chat_select_model
    \/ chat_no_model
    \/ chat_not_heard
    \/ chat_exit
    \/ chat_heard
    \/ chat_answer
    \/ chat_limit_history

ChatSpec == ChatInit /\ [][ChatNext]_vars

---------------------------------------------------------------------------
(* record_audio: one call *)

RecordInit ==
    /\ stop_recording_event = FALSE
    /\ input_thread = "idle"
    /\ rec_pc = "start"
    /\ frames = <<>>
    /\ captured = 0
    /\ late_reads = 0
    /\ wav_file = [written |-> FALSE, frames |-> <<>>]
    /\ IdleAssembler /\ IdleEnhance /\ IdleColor /\ IdleUpload
    /\ IdleTable /\ IdleChat /\ IdlePlayground

RecordNext ==
    \/ rec_start_thread
    \/ wait_for_enter_input
    \/ wait_for_enter_set
    \/ wait_for_enter_return
    \/ rec_open
    \/ rec_loop_enter
    \/ rec_loop_exit
    \/ rec_read
    \/ rec_device_fails
    \/ rec_join
    \/ rec_write

RecordSpec == RecordInit /\ [][RecordNext]_vars

\* the steps of the recording thread that follow from the code alone
RecordingThread ==
    \/ rec_start_thread
    \/ rec_open
    \/ rec_loop_enter
    \/ rec_loop_exit
    \/ rec_read
    \/ rec_join
    \/ rec_write

\* the steps of the input thread once input() has returned
InputThread ==
    \/ wait_for_enter_set
    \/ wait_for_enter_return

\* a thread that can run is run: neither thread waits for the other except in
\* join; when the user presses Enter and whether the device fails are not
\* the program's to decide
RecordFairSpec ==
    /\ RecordSpec
    /\ WF_vars(RecordingThread)
    /\ WF_vars(InputThread)

---------------------------------------------------------------------------
(* Vocabulary of the properties.  It is stated on the inputs and on what   *)
(* the call left behind (result, stdout, the engine's log), not on the     *)
(* guards of the actions.                                                  *)

Podcast == mode = "podcast"
Audiobook == mode = "audiobook"
Done == pc = "done"
ReturnedAudio == result.kind = "audio"

\* a table cell that holds no value
Missing(c) == c = NaN
\* a string that is empty once surrounding whitespace is removed
Blank(t) == \A k \in 1..Len(t) : t[k] \in {" ", "\n"}
\* row k has both fields present and fails validation
BadRow(k) ==
    /\ ~Missing(sentences[k].voice) /\ ~Missing(sentences[k].text)
    /\ \/ sentences[k].voice \notin available_voices
       \/ Blank(sentences[k].text)
\* row k has both fields present and passes validation
GoodRow(k) ==
    /\ ~Missing(sentences[k].voice) /\ ~Missing(sentences[k].text)
    /\ sentences[k].voice \in available_voices
    /\ ~Blank(sentences[k].text)
HasBadRow == \E k \in 1..Len(sentences) : BadRow(k)
FirstBadRow == CHOOSE k \in 1..Len(sentences) :
                   BadRow(k) /\ \A j \in 1..(k - 1) : ~BadRow(j)
\* the error create_podcast printed before returning None, if any
PrintedError(e) ==
    /\ printed # <<>>
    /\ printed[Len(printed)] = [line |-> "Error creating podcast", err |-> e]
WasSkipped(k) ==
    \E j \in 1..Len(printed) : printed[j] = [line |-> "Skipping row", row |-> k]
EngineFailed == \E c \in 1..Len(calls) : ~calls[c].ok
\* the numbers of the good rows among rows 1..k, in order
RECURSIVE GoodRowsUpTo(_)
GoodRowsUpTo(k) ==
    IF k = 0 THEN <<>>
    ELSE IF GoodRow(k) THEN Append(GoodRowsUpTo(k - 1), k) ELSE GoodRowsUpTo(k - 1)

---------------------------------------------------------------------------
(* C1 *)

\* row k is invalid in the words of C1 (a missing text holds no text)
C1_Invalid(k) ==
    \/ sentences[k].voice \notin available_voices
    \/ Missing(sentences[k].text)
    \/ Blank(sentences[k].text)

---------------------------------------------------------------------------
(* C2 *)

\* C2 as stated: a script with an invalid line causes no engine call at all.
C2_AsStated == (Podcast /\ HasBadRow) => calls = <<>>

\* C2, amended: validation is per row and interleaved with synthesis.  For a
\* script whose first invalid row is k, the engine is never called for row k
\* or a later row; the good rows before k are synthesized, in order, up to
\* the first failing call, and all of them when no call fails.
C2_NoCallFromInvalidRowOn ==
    (Podcast /\ HasBadRow) =>
        LET before == GoodRowsUpTo(FirstBadRow - 1)
        IN  /\ Len(calls) <= Len(before)
            /\ \A c \in 1..Len(calls) :
                   /\ calls[c].text = sentences[before[c]].text
                   /\ calls[c].voice = sentences[before[c]].voice
            /\ (Done /\ ~EngineFailed) => Len(calls) = Len(before)

\* the call for row 1 was made although row 2 is invalid
C2_Witness ==
    /\ Podcast /\ Done /\ HasBadRow
    /\ FirstBadRow = 2 /\ GoodRow(1)
    /\ Len(calls) = 1 /\ calls[1].ok
    /\ PrintedError(ValueError("Invalid voice", 2))

---------------------------------------------------------------------------
(* C3 *)

\* nothing is left to synthesize: every row of the table is skipped (or the
\* table is empty); the document has no non-empty paragraph
NothingToSynthesize ==
    \/ Podcast /\ \A k \in 1..Len(sentences) :
                     Missing(sentences[k].voice) \/ Missing(sentences[k].text)
    \/ Audiobook /\ file \notin {NoFile, Unreadable} /\ Blank(file)

\* C3 as stated: with nothing left to synthesize the assembler returns an
\* empty buffer and reports no error.
C3_AsStated ==
    (Done /\ NothingToSynthesize) => (ReturnedAudio /\ result.audio = <<>>)

\* C3, amended: with nothing left to synthesize the assembler makes no engine
\* call and returns no buffer, it reports an error: create_podcast prints the
\* ValueError of np.concatenate on an empty list and returns None;
\* text_to_audiobook raises gr.Error "Failed to generate audiobook: The
\* uploaded file is empty".
C3_EmptyInputIsAnError ==
    NothingToSynthesize =>
        /\ calls = <<>>
        /\ ~ReturnedAudio
        /\ (Done /\ Podcast) =>
              /\ result = ReturnNone
              /\ PrintedError(ValueError("need at least one array to concatenate", 0))
        /\ (Done /\ Audiobook) =>
              result = [kind |-> "gr.Error",
                        prefix |-> "Failed to generate audiobook: ",
                        cause |-> ValueError("The uploaded file is empty", 0)]

\* a table of two skipped rows ended in the concatenation error
C3_Witness ==
    /\ Podcast /\ Done /\ NothingToSynthesize
    /\ Len(sentences) = 2
    /\ WasSkipped(1) /\ WasSkipped(2)
    /\ result = ReturnNone

---------------------------------------------------------------------------
(* C4 *)

\* the loop has dealt with row k: it went past it, or it stopped on it
Reached(k) == k <= i \/ (Done /\ k = i + 1 /\ k <= Len(sentences))
ValidationErrorAt(k) ==
    /\ result = ReturnNone
    /\ \E what \in {"Invalid voice", "Empty text"} : PrintedError(ValueError(what, k))

\* C4 as stated: a row is skipped exactly when both of its fields are empty
\* (missing); a row with exactly one empty field is not skipped and fails
\* validation.
C4_AsStated ==
    Podcast =>
        \A k \in 1..Len(sentences) :
            LET bothEmpty == Missing(sentences[k].voice) /\ Missing(sentences[k].text)
                oneEmpty == ~bothEmpty /\ (\/ Missing(sentences[k].voice)
                                           \/ Missing(sentences[k].text))
            IN  /\ WasSkipped(k) => bothEmpty
                /\ (Reached(k) /\ bothEmpty) => WasSkipped(k)
                /\ (Reached(k) /\ oneEmpty) => (~WasSkipped(k) /\ ValidationErrorAt(k))

\* C4, amended: a row is skipped (no engine call, no error) exactly when its
\* voice or its text is missing (NaN): one missing field is enough, and an
\* empty string is not a missing value.  A row with both fields present whose
\* voice is empty or unknown, or whose text is blank, is never skipped or
\* passed: the loop stops on it with a ValueError naming it and create_podcast
\* returns None.
C4_SkipIffAFieldIsMissing ==
    Podcast =>
        \A k \in 1..Len(sentences) :
            LET aMissing == Missing(sentences[k].voice) \/ Missing(sentences[k].text)
            IN  /\ WasSkipped(k) => (aMissing /\ k <= i)
                /\ (k <= i /\ aMissing) => WasSkipped(k)
                /\ BadRow(k) => /\ ~WasSkipped(k)
                                /\ i < k
                                /\ Reached(k) => ValidationErrorAt(k)
                /\ Len(calls) + Cardinality({j \in 1..Len(sentences) : WasSkipped(j)})
                       = i + (IF EngineFailed THEN 1 ELSE 0)

\* a row with only its voice missing was skipped, and the next row was synthesized
C4_Witness ==
    /\ Podcast /\ Done /\ ReturnedAudio
    /\ Len(sentences) = 2
    /\ Missing(sentences[1].voice) /\ sentences[1].text = <<"h", "i">>
    /\ WasSkipped(1)
    /\ Len(calls) = 1

---------------------------------------------------------------------------
(* What the buffer should be, from the engine's log and the pauses *)

\* a frame of silence in the running mode (stereo for the podcast)
SilentFrame == IF Podcast THEN <<0, 0>> ELSE 0
\* the frames of the c-th synthesized segment, as the engine returned them
SegFrames(c) ==
    [k \in 1..Len(calls[c].samples) |->
        IF Podcast THEN <<calls[c].samples[k], calls[c].samples[k]>>
        ELSE calls[c].samples[k]]
SilFrames(c) == [k \in 1..pauses[c].frames |-> SilentFrame]
\* segment 1, pause 1, ..., segment c, pause c
RECURSIVE Assembled(_)
Assembled(c) ==
    IF c = 0 THEN <<>> ELSE Assembled(c - 1) \o SegFrames(c) \o SilFrames(c)
RECURSIVE SumSegments(_)
SumSegments(c) ==
    IF c = 0 THEN 0 ELSE SumSegments(c - 1) + Len(calls[c].samples)
RECURSIVE SumPauses(_)
SumPauses(c) == IF c = 0 THEN 0 ELSE SumPauses(c - 1) + pauses[c].frames

\* the paragraphs of a document: the characters of every run of two or more
\* newlines are boundary characters; the text between boundaries, trimmed,
\* is a paragraph unless it is empty
InNewlineRun(s, p) ==
    /\ s[p] = "\n"
    /\ \/ p > 1 /\ s[p - 1] = "\n"
       \/ p < Len(s) /\ s[p + 1] = "\n"
Trimmed(t) ==
    IF Blank(t) THEN <<>>
    ELSE LET inked == {k \in 1..Len(t) : t[k] \notin {" ", "\n"}}
             lo == CHOOSE k \in inked : \A j \in inked : k <= j
             hi == CHOOSE k \in inked : \A j \in inked : k >= j
         IN  [k \in 1..(hi - lo + 1) |-> t[lo + k - 1]]
RECURSIVE ParagraphsFrom(_, _, _)
ParagraphsFrom(s, p, cur) ==
    LET close == LET t == Trimmed(cur) IN IF t = <<>> THEN <<>> ELSE <<t>>
    IN  IF p > Len(s) THEN close
        ELSE IF InNewlineRun(s, p) THEN close \o ParagraphsFrom(s, p + 1, <<>>)
        ELSE ParagraphsFrom(s, p + 1, Append(cur, s[p]))
DocumentParagraphs(s) == ParagraphsFrom(s, 1, <<>>)

\* the lines the assembler has to synthesize, in input order
RECURSIVE UnskippedRowsUpTo(_)
UnskippedRowsUpTo(k) ==
    IF k = 0 THEN <<>>
    ELSE IF Missing(sentences[k].voice) \/ Missing(sentences[k].text)
         THEN UnskippedRowsUpTo(k - 1)
         ELSE Append(UnskippedRowsUpTo(k - 1),
                     [text |-> sentences[k].text, voice |-> sentences[k].voice])
InputLines ==
    IF Podcast THEN UnskippedRowsUpTo(Len(sentences))
    ELSE IF file \in {NoFile, Unreadable} THEN <<>>
    ELSE LET ps == DocumentParagraphs(file)
         IN  [k \in 1..Len(ps) |-> [text |-> ps[k], voice |-> voice]]

---------------------------------------------------------------------------
(* C5 *)

\* C5: the returned buffer has as many frames as the synthesized segments and
\* the inserted pauses together; an audiobook pause is int(0.5 * sr) frames
\* and a podcast pause is int(d * sr) frames for some d in [0.5, 1.0], sr
\* being the rate the engine returned for the segment the pause follows.
C5_BufferLength ==
    ReturnedAudio =>
        /\ Len(calls) >= 1
        /\ Len(pauses) = Len(calls)
        /\ Len(result.audio) = SumSegments(Len(calls)) + SumPauses(Len(pauses))
        /\ \A c \in 1..Len(pauses) :
              LET f == pauses[c].frames
                  sr == calls[c].sr
              IN  IF Audiobook
                  THEN 2 * f <= sr /\ sr < 2 * (f + 1)
                  ELSE f <= sr /\ sr < 2 * (f + 1)

\* a podcast of two lines was returned, with pauses of different lengths
C5_Witness ==
    /\ Podcast /\ ReturnedAudio
    /\ Len(calls) = 2
    /\ pauses[1].frames # pauses[2].frames
    /\ Len(result.audio) > 4

---------------------------------------------------------------------------
(* C6 *)

\* C6: the engine is called once per line that is not skipped, in input
\* order (the calls made so far are the first lines, one call each), and a
\* returned buffer is segment 1, pause 1, segment 2, pause 2, ... with every
\* line's segment exactly once; lines may repeat a speaker.
C6_OneCallPerLineInOrder ==
    /\ calls # <<>> =>
          LET lines == InputLines
          IN  /\ Len(calls) <= Len(lines)
              /\ \A c \in 1..Len(calls) :
                    /\ calls[c].text = lines[c].text
                    /\ calls[c].voice = lines[c].voice
    /\ ReturnedAudio =>
          /\ Len(calls) = Len(InputLines)
          /\ \A c \in 1..Len(calls) : calls[c].ok
          /\ Len(pauses) = Len(calls)
          /\ result.audio = Assembled(Len(calls))

\* two lines of the same speaker were assembled
C6_Witness ==
    /\ Podcast /\ ReturnedAudio
    /\ Len(sentences) = 2 /\ Len(calls) = 2
    /\ calls[1].voice = calls[2].voice
    /\ Len(calls[1].samples) # Len(calls[2].samples)

---------------------------------------------------------------------------
(* C7 *)

\* C7: every pause lies between two segments: a returned buffer of n segments
\* holds n - 1 pauses and does not end with silence.
C7_PausesOnlyBetweenSegments ==
    ReturnedAudio =>
        /\ Len(pauses) = Len(calls) - 1
        /\ result.audio[Len(result.audio)] # SilentFrame

---------------------------------------------------------------------------
(* C8 *)

\* C8 as stated: the returned sample rate is the one the first call returned.
C8_AsStated == ReturnedAudio => result.sample_rate = calls[1].sr

\* C8, amended: the returned sample rate is the one the last synthesis call
\* returned (the first one's only when the engine keeps to one rate); every
\* segment is put in the chunk list as the engine returned it, whatever its
\* rate.
C8_LastRateIsReturned ==
    /\ \A c \in 1..Len(calls) :
          calls[c].ok => /\ 2 * c - 1 <= Len(audio)
                         /\ audio[2 * c - 1] = SegFrames(c)
    /\ (calls # <<>> /\ calls[Len(calls)].ok) => sample_rate = calls[Len(calls)].sr
    /\ ReturnedAudio => result.sample_rate = calls[Len(calls)].sr

\* the engine changed its rate between two calls and a buffer was returned
C8_Witness ==
    /\ ReturnedAudio
    /\ Len(calls) = 2
    /\ calls[1].sr # calls[2].sr
    /\ result.sample_rate = calls[2].sr

---------------------------------------------------------------------------
(* C9 *)

\* C9: the audiobook's paragraph list is the document's paragraphs in order,
\* trimmed, none empty, a run of two or more newlines being one boundary; the
\* engine is called for them in that order with the narrator voice, for all
\* of them when a buffer is returned.
C9_ParagraphSplit ==
    (Audiobook /\ (pc = "loop" \/ calls # <<>> \/ ReturnedAudio)) =>
        LET doc == DocumentParagraphs(file)
        IN  /\ paragraphs = doc
            /\ \A k \in 1..Len(paragraphs) :
                  /\ paragraphs[k] # <<>>
                  /\ paragraphs[k][1] \notin {" ", "\n"}
                  /\ paragraphs[k][Len(paragraphs[k])] \notin {" ", "\n"}
            /\ Len(calls) <= Len(doc)
            /\ \A c \in 1..Len(calls) :
                  /\ calls[c].voice = voice
                  /\ calls[c].text = doc[c]
            /\ ReturnedAudio => Len(calls) = Len(doc)

\* "AA\n\n\nA" was read as the paragraphs "AA", "A" and both were synthesized
C9_Witness ==
    /\ Audiobook /\ ReturnedAudio
    /\ file = <<"A", "A", "\n", "\n", "\n", "A">>
    /\ paragraphs = <<(<<"A", "A">>), (<<"A">>)>>
    /\ Len(calls) = 2

---------------------------------------------------------------------------
(* C10 *)

\* C10: when the engine fails on a line the assembler aborts: that call is
\* the last one, no buffer is returned, and the engine's error reaches the
\* caller (as the raised error's message), in both modes.
C10_EngineFailureSurfaces ==
    (Done /\ EngineFailed) =>
        /\ ~calls[Len(calls)].ok
        /\ ~ReturnedAudio
        /\ result.kind = "gr.Error" /\ result.cause = EngineError

---------------------------------------------------------------------------
(* C11 *)

\* the call is one of text_to_speech
Single == mode = "single"
\* the call ended and gave its caller no audio
EndedWithoutAudio == Done /\ ~ReturnedAudio
\* the call ended in an error that carries a message for the user
ErrorWithMessage == result.kind = "gr.Error" /\ result.prefix # ""

\* C11: no entry point of the synthesis tabs swallows a failure: a call of
\* text_to_speech, create_podcast or text_to_audiobook that ends without audio
\* ends in an error outcome that carries a message, and a failed engine call
\* is never tried again (it is the last call made).
C11_NoFailureSwallowed ==
    /\ \A c \in 1..Len(calls) : ~calls[c].ok => c = Len(calls)
    /\ EndedWithoutAudio => ErrorWithMessage

---------------------------------------------------------------------------
(* The enhancement claims' vocabulary *)

\* the names of the operations a buffer went through, oldest first
RECURSIVE StageNames(_)
StageNames(buf) ==
    IF buf = <<>> THEN <<>> ELSE <<Head(buf).stage>> \o StageNames(Tail(buf))
\* the invocation has ended
Ended(j) == enh[j].pc = "done"
Raised(j) == Ended(j) /\ enh[j].result.kind = "gr.Error"
ReturnedPath(j) == Ended(j) /\ enh[j].result.kind = "return"
\* the four effect stages, in the order the claim gives
EffectStages == <<"NoiseGate", "Compressor", "LowShelfFilter", "Gain">>
\* what the buffer has been through when the effect stages start
BeforeEffects(j) ==
    <<"AudioFile">> \o (IF enh[j].noise_reduction THEN <<"reduce_noise">> ELSE <<>>)
\* the two invocations were given the same input and the same parameters
SameArguments(j, k) ==
    /\ enh[j].input_file = enh[k].input_file
    /\ enh[j].noise_reduction = enh[k].noise_reduction
    /\ enh[j].output_gain = enh[k].output_gain
\* the invocation has started and has not ended
InProgress(j) == enh[j].pc \notin {"start", "done"}
\* the chain of invocation j stopped before its last stage had run
ChainFailed(j) ==
    /\ Raised(j)
    /\ enh[j].input_file # None
    /\ enh[j].effected = <<>>

---------------------------------------------------------------------------
(* C12 *)

\* C12: the stages run in series in the order noise reduction, noise gate,
\* compressor, low-shelf filter, output gain, each on the output of the one
\* before: the buffer handed to the effects was read from the input file and
\* went through noise reduction exactly when noise_reduction is set, and the
\* processed buffer is that buffer after each of the four effects once, in order.
C12_StagesInSeries ==
    \A j \in Invocations :
        /\ enh[j].pc = "board" => StageNames(enh[j].audio) = BeforeEffects(j)
        /\ enh[j].effected # <<>> =>
               /\ StageNames(enh[j].effected) = BeforeEffects(j) \o EffectStages
               /\ SubSeq(enh[j].effected, 1, Len(enh[j].audio)) = enh[j].audio
               /\ enh[j].effected[1].param = enh[j].input_file
               /\ enh[j].effected[Len(enh[j].effected)].param = enh[j].output_gain

\* one invocation ran all five stages and another, without noise reduction,
\* the four effects only
C12_Witness ==
    /\ enh["A"].noise_reduction /\ ReturnedPath("A")
    /\ Len(enh["A"].effected) = 6
    /\ ~enh["B"].noise_reduction /\ ReturnedPath("B")
    /\ Len(enh["B"].effected) = 5

---------------------------------------------------------------------------
(* C13 *)

---------------------------------------------------------------------------
(* C14 *)

\* C14: enhancement is all-or-nothing: an invocation whose input read, noise
\* reduction or effect stage failed has not created or modified the output
\* file, has raised the processing error with the underlying cause, and once
\* no other invocation is running there is no file at the output path that
\* could be taken for its result.
C14_AllOrNothing ==
    \A j \in Invocations :
        (ChainFailed(j) /\ \A k \in Invocations \ {j} : ~InProgress(k)) =>
            /\ ~enh[j].touched
            /\ enh[j].result.prefix = "Error processing audio: "
            /\ enh[j].result.cause # NoCause
            /\ ~out_file.exists

---------------------------------------------------------------------------
(* C15 *)

\* C15: two concurrent invocations for different inputs do not disturb each
\* other: each one that returns hands back the processed audio of its own
\* input and the spectrogram of that audio.
C15_Independent ==
    \A j \in Invocations :
        (ReturnedPath(j) /\ \A k \in Invocations \ {j} : enh[k].input_file # enh[j].input_file)
            => /\ enh[j].result.holds = enh[j].effected
               /\ enh[j].result.output_spectrogram = [of |-> enh[j].effected]

---------------------------------------------------------------------------
(* The colour claims' vocabulary *)

\* validate_color has been called and has ended
Validated == hex_color # Pending
GaveColor == hex_color.kind = "return"
IsString == rgba.type = "str"
IsSequence == rgba.type \in {"tuple", "list"}
\* "#RGB" or "#RRGGBB"
LooksHex(s) ==
    /\ Len(s) \in {4, 7}
    /\ s[1] = "#"
    /\ \A k \in 2..Len(s) : s[k] \in HexDigits
\* s without the wrap around it, <<>> when s does not have that wrap
Unwrapped(s, wrap) ==
    LET n == Len(s) - Len(wrap[1]) - Len(wrap[2])
    IN  IF /\ n >= 0
           /\ SubSeq(s, 1, Len(wrap[1])) = wrap[1]
           /\ SubSeq(s, Len(s) - Len(wrap[2]) + 1, Len(s)) = wrap[2]
        THEN SubSeq(s, Len(wrap[1]) + 1, Len(s) - Len(wrap[2]))
        ELSE <<>>
\* number, comma, number, comma, number, comma, number
FourListed(m) ==
    /\ Len(m) = 7
    /\ \A k \in {2, 4, 6} : m[k] = ","
    /\ \A k \in {1, 3, 5, 7} : is_float(m[k])
\* the string lists exactly four numbers, bare or inside rgba( )
FourNumbers(s) == \E wrap \in Wraps : FourListed(Unwrapped(s, wrap))
\* the four numbers of such a string, in halves
NumbersOf(s) ==
    LET m == Unwrapped(s, CHOOSE wrap \in Wraps : FourListed(Unwrapped(s, wrap)))
    IN  [k \in 1..4 |-> float(m[2 * k - 1])]
\* the argument has four numeric components: RGBA holds them, in halves
FourNumeric ==
    \/ IsSequence /\ Len(rgba.value) = 4 /\ \A k \in 1..4 : rgba.value[k].num
    \/ IsString /\ FourNumbers(rgba.value)
RGBA ==
    IF IsString THEN NumbersOf(rgba.value)
    ELSE [k \in 1..4 |-> rgba.value[k].h]
\* the integer nearest to h halves, the even one when there are two
Nearest(h) ==
    CHOOSE n \in ((h - 1) \div 2)..((h + 1) \div 2) :
        /\ 2 * n - h \in {-1, 0, 1}
        /\ (2 * n # h) => n % 2 = 0
\* the value of a lower-case hex digit, 16 for anything else
DigitValue(d) ==
    IF \E v \in 0..15 : hex_digits[v + 1] = d
    THEN CHOOSE v \in 0..15 : hex_digits[v + 1] = d
    ELSE 16
\* c is "#rrggbb" in lower case for the integers r, g, b
IsHexOf(c, r, g, b) ==
    /\ Len(c) = 7 /\ c[1] = "#"
    /\ \A k \in 2..7 : DigitValue(c[k]) < 16
    /\ 16 * DigitValue(c[2]) + DigitValue(c[3]) = r
    /\ 16 * DigitValue(c[4]) + DigitValue(c[5]) = g
    /\ 16 * DigitValue(c[6]) + DigitValue(c[7]) = b

---------------------------------------------------------------------------
(* C16 *)

\* C16: a "#RGB" or "#RRGGBB" string is returned unchanged; an RGBA 4-tuple
\* (or list) or a string of four numbers, all in 0..255, is turned into the
\* lower-case "#rrggbb" of its first three components rounded to integers,
\* whatever the alpha is.
C16_HexOfRGB ==
    Validated =>
        /\ (IsString /\ LooksHex(rgba.value)) =>
               GaveColor /\ hex_color.color = rgba.value
        /\ (FourNumeric /\ \A k \in 1..4 : RGBA[k] \in 0..510) =>
               /\ GaveColor
               /\ IsHexOf(hex_color.color, Nearest(RGBA[1]), Nearest(RGBA[2]),
                          Nearest(RGBA[3]))

\* (0.5, 128, 255, 0) gave "#0080ff"
C16_Witness ==
    /\ rgba = Tuple("tuple", <<Num(1), Num(256), Num(510), Num(0)>>)
    /\ GaveColor
    /\ hex_color.color = <<"#", "0", "0", "8", "0", "f", "f">>

---------------------------------------------------------------------------
(* C17 *)

\* one of R, G, B is, once rounded, below 0 or above 255
OutOfRange == \E k \in 1..3 : Nearest(RGBA[k]) < 0 \/ Nearest(RGBA[k]) > 255
Clamped(n) == IF n < 0 THEN 0 ELSE IF n > 255 THEN 255 ELSE n

\* C17 as stated: a component out of range is clamped to [0, 255] and the
\* call still gives a hex colour.
C17_AsStated ==
    (Validated /\ FourNumeric /\ OutOfRange) =>
        /\ GaveColor
        /\ IsHexOf(hex_color.color, Clamped(Nearest(RGBA[1])),
                   Clamped(Nearest(RGBA[2])), Clamped(Nearest(RGBA[3])))

\* C17: nothing is clamped: a four-component argument one of whose R, G, B is,
\* once rounded, below 0 or above 255 makes validate_color raise a ValueError
\* and give no colour.
C17_OutOfRangeRaises ==
    (Validated /\ FourNumeric /\ OutOfRange) =>
        /\ ~GaveColor
        /\ hex_color.exc = "ValueError"

\* (300, 0, 0, 255) was refused
C17_Witness ==
    /\ rgba = Tuple("tuple", <<Num(600), Num(0), Num(0), Num(510)>>)
    /\ hex_color.kind = "raise"
    /\ hex_color.exc = "ValueError"

---------------------------------------------------------------------------
(* C18 *)

\* the argument is none of the forms validate_color accepts
Malformed ==
    \/ IsSequence /\ Len(rgba.value) # 4
    \/ IsSequence /\ Len(rgba.value) = 4 /\ \E k \in 1..4 : ~rgba.value[k].num
    \/ IsString /\ ~LooksHex(rgba.value) /\ ~FourNumbers(rgba.value)

\* C18: every malformed argument (a sequence or number string whose component
\* count is not four, a string that is neither a hex colour nor four numbers,
\* a 4-tuple with a component that is no number) makes validate_color raise,
\* and no colour comes back.
C18_MalformedRaises ==
    (Validated /\ Malformed) => hex_color.kind = "raise"

---------------------------------------------------------------------------
(* The upload claims' vocabulary *)

\* handle_file_upload has been called on a file that could be read
Uploaded == upload_result # Pending /\ upload # Unreadable
UploadFailed == upload_result.kind = "gr.Error"
\* the lines of the uploaded file, blank ones included
FileLines == splitlines(upload)
BlankLine(l) == strip(l) = <<>>
HasColon(l) == \E k \in 1..Len(l) : l[k] = ":"
FirstColon(l) == CHOOSE k \in 1..Len(l) : l[k] = ":" /\ \A m \in 1..(k - 1) : l[m] # ":"
\* the speaker a line names and the text it gives
Speaker(l) == lower(strip(SubSeq(l, 1, FirstColon(l) - 1)))
Spoken(l) == strip(SubSeq(l, FirstColon(l) + 1, Len(l)))
Offending(l) ==
    /\ ~BlankLine(l)
    /\ \/ ~HasColon(l)
       \/ Speaker(l) \notin available_voices
       \/ Spoken(l) = <<>>
\* the rows of the non-blank lines, in file order
RECURSIVE RowsOf(_)
RowsOf(lines) ==
    IF lines = <<>> THEN <<>>
    ELSE IF BlankLine(Head(lines)) THEN RowsOf(Tail(lines))
    ELSE <<[voice |-> Speaker(Head(lines)), text |-> Spoken(Head(lines))]>>
         \o RowsOf(Tail(lines))

---------------------------------------------------------------------------
(* C19 *)

\* C19: when a non-blank line of the uploaded file has no colon, names a
\* speaker that trimmed and lower-cased is no available voice, or has no text
\* after its colon, the upload fails with an error that reports the number of
\* the first such line, counted from 1 with the blank lines, and no table is
\* produced.
C19_FirstOffendingLine ==
    (Uploaded /\ \E k \in 1..Len(FileLines) : Offending(FileLines[k])) =>
        LET first == CHOOSE k \in 1..Len(FileLines) :
                         /\ Offending(FileLines[k])
                         /\ \A m \in 1..(k - 1) : ~Offending(FileLines[m])
        IN  /\ UploadFailed
            /\ upload_result.cause.exc = "gr.Error"
            /\ upload_result.cause.row = first

\* a blank line, a good line, then a line without colon: line 3 was reported
C19_Witness ==
    /\ upload = <<NL, "a", "f", ":", "h", "i", NL, "a", "f", "h", "i">>
    /\ UploadFailed
    /\ upload_result.cause.row = 3
    /\ upload_result.cause.what = "Missing colon separator"

---------------------------------------------------------------------------
(* C20 *)

\* C20: for a file all of whose non-blank lines are well-formed the upload
\* returns a table with one row per non-blank line, in file order: the voice
\* is the text before the first colon, trimmed and lower-cased, the text is
\* all that follows the first colon, trimmed, later colons included.
C20_OneRowPerLine ==
    (Uploaded /\ \A k \in 1..Len(FileLines) : ~Offending(FileLines[k])) =>
        /\ upload_result.kind = "table"
        /\ upload_result.rows = RowsOf(FileLines)

\* " AF : h:i ", a blank line and "am:i" gave the rows (af, h:i) and (am, i)
C20_Witness ==
    /\ upload = <<SP, "A", "F", SP, ":", SP, "h", ":", "i", SP, NL, NL, "a", "m", ":", "i">>
    /\ upload_result.kind = "table"
    /\ upload_result.rows = << [voice |-> <<"a", "f">>, text |-> <<"h", ":", "i">>],
                              [voice |-> <<"a", "m">>, text |-> <<"i">>] >>

---------------------------------------------------------------------------
(* The podcast table *)

\* the text holds something other than whitespace
NonBlank(t) == \E k \in 1..Len(t) : t[k] \notin {SP, NL}
ValidRow(r) == r.voice \in available_voices /\ NonBlank(r.text)
\* the handler that ran last, and how it ended
LastOp(op) == table_op.op = op
Rejected == table_result.kind = "gr.Error"
Accepted == table_result.kind = "table"

\* the step of an accepted Add Line: the rows there were, then the new row
AddAppends ==
    (table_op'.op = "add" /\ table_result'.kind = "table")
        => /\ Len(podcast_input') = Len(podcast_input) + 1
           /\ \A k \in 1..Len(podcast_input) : podcast_input'[k] = podcast_input[k]
           /\ podcast_input'[Len(podcast_input')] =
                  [voice |-> table_op'.voice, text |-> table_op'.text]
\* the step of a rejected Add Line or upload
RejectedKeeps ==
    (table_op'.op \in {"add", "upload"} /\ table_result'.kind = "gr.Error")
        => podcast_input' = podcast_input

\* C21: after any sequence of Add Line, Clear All, Load Example and upload
\* operations from the empty table, every row has a voice of the available set
\* and a text that is not blank; an accepted Add Line appends its row after the
\* existing rows without changing them, and a rejected Add Line or upload
\* leaves the table unchanged.
C21_TableInvariant ==
    /\ [](\A k \in 1..Len(podcast_input) : ValidRow(podcast_input[k]))
    /\ [][AddAppends /\ RejectedKeeps]_vars

\* a row was added after the eight rows of the example
C21_Witness ==
    /\ LastOp("add") /\ Accepted
    /\ Len(podcast_input) = 9
    /\ podcast_input[9].text = <<SP, "h">>

---------------------------------------------------------------------------
(* playground_pipeline *)

PlaygroundDone == pg_pc = "done"
\* the positions of the calls of fn in the log of backend calls
CallsOf(fn) == {k \in 1..Len(pg_calls) : pg_calls[k].fn = fn}
Synthesised == CallsOf("kokoro.create") # {}
BlankText(t) == \A k \in 1..Len(t) : t[k] \in {SP, NL}
PlaceholderModel == pg_args.model[1] \in {"Error", "No models"}
ChatFailed == \E k \in CallsOf("ollama.generate") : ~pg_calls[k].ok
ChatAnsweredBlank ==
    /\ pg_pc # "start"
    /\ \E k \in CallsOf("ollama.generate") : pg_calls[k].ok
    /\ BlankText(ai_response)
MessageOnly == pg_result.kind = "playground" /\ pg_result.audio = [kind |-> "None"]

\* C22: the chat call precedes the synthesis call, and synthesis is invoked only
\* on a genuine model response: when the prompt is empty, the model entry is a
\* placeholder, or the chat backend fails or returns an empty response, the
\* synthesis engine is not called and the result is a message with audio None.
C22_SynthesisOnlyOnResponse ==
    /\ \A k \in CallsOf("kokoro.create") : \E c \in CallsOf("ollama.generate") : c < k
    /\ (BlankText(pg_args.prompt) \/ PlaceholderModel \/ ChatFailed \/ ChatAnsweredBlank)
           => /\ ~Synthesised
              /\ PlaygroundDone => MessageOnly

---------------------------------------------------------------------------
(* terminal_chatbot_conversation *)

\* the loop is about to start an iteration
AtLoopStart == chat_pc = "loop"
\* the list holds a message, not the name of a model
IsPlaceholder(name) == name[1] \in {"Error", "No models"}
RealModels == models # <<>> /\ \A k \in 1..Len(models) : ~IsPlaceholder(models[k])
NoValidModel == models # <<>> /\ IsPlaceholder(models[1])
InLoop == chat_pc \in {"loop", "asked", "answered", "exited"}

\* C23: at the start of every loop iteration the history holds at most 20
\* entries, and they are the most recent messages in the order they were said,
\* user and assistant entries alternating.
C23_LastTwenty ==
    AtLoopStart =>
        /\ Len(conversation_history) <= 20
        /\ Len(conversation_history) = (IF said < 20 THEN said ELSE 20)
        /\ \A k \in 1..Len(conversation_history) :
               conversation_history[k].n = said - Len(conversation_history) + k
        /\ \A k \in 1..(Len(conversation_history) - 1) :
               conversation_history[k].who # conversation_history[k + 1].who

\* twenty-two messages were said and the first two were dropped
C23_Witness ==
    /\ AtLoopStart
    /\ said = 22
    /\ Len(conversation_history) = 20
    /\ conversation_history[1] = [who |-> "You", n |-> 3]

\* C24: whenever get_available_models returns one or more real model names,
\* the model used for every turn is the first entry of that list.
C24_FirstModel ==
    RealModels => \A k \in 1..Len(sent) : sent[k] = models[1]

\* C25: when get_available_models returns a placeholder list, the loop is
\* never entered, nothing is recorded, and no placeholder is passed to the chat
\* backend as a model name.
C25_NoLoopWithoutModel ==
    NoValidModel =>
        /\ ~InLoop
        /\ turns = 0
        /\ \A k \in 1..Len(sent) : ~IsPlaceholder(sent[k])

---------------------------------------------------------------------------
(* record_audio *)

LoopEnded == rec_pc \in {"stopped", "joined", "done"}
FileWritten == wav_file.written
RecordRaised == rec_pc = "raised"
Joined == input_thread = "finished"
\* the chunks the stream gave, in the order it gave them
Captured == [k \in 1..captured |-> k]

\* what holds in every state of a call
RecordSafety ==
    /\ LoopEnded => stop_recording_event
    /\ late_reads <= 1
    /\ rec_pc \in {"joined", "done"} => Joined
    /\ FileWritten => Joined /\ rec_pc = "done" /\ wav_file.frames = Captured

====
